---- MODULE Spec2Model ----
(***************************************************************************)
(* k2sobot: the kubectl selection handlers (src/handlers.py, identical to  *)
(* the handlers of src/main.py) over the shared selection store            *)
(* (src/shared_state.py), and the tool-call negotiator chat_with_mcp       *)
(* (src/gemini_integration.py).                                            *)
(***************************************************************************)
EXTENDS Integers, Sequences, FiniteSets, TLC

(***************************************************************************)
(* Bounds of the model.                                                    *)
(***************************************************************************)
NumNamespaces == 2
NumPods == 1
NumDeployments == 1

NamespaceNames == <<"default", "kube-system", "monitoring", "argocd">>
PodNames == <<"web-0", "web-1", "web-2">>
DeploymentNames == <<"web", "api", "worker">>

\* the conversation whose selections are followed
Channels == {"C1"}
ClusterNamespaces == {NamespaceNames[i] : i \in 1..NumNamespaces}
ClusterPods == {PodNames[i] : i \in 1..NumPods}
ClusterDeployments == {DeploymentNames[i] : i \in 1..NumDeployments}

(***************************************************************************)
(* Python values.  A dict is a function whose domain is its key set; None  *)
(* is a value of its own, which an f-string renders as the text "None".    *)
(***************************************************************************)
NoneVal == "<None>"
EmptyDict == <<>>

Range(s) == {s[i] : i \in DOMAIN s}

\* dict.get(key, default)
Get(d, k, dflt) == IF k \in DOMAIN d THEN d[k] ELSE dflt

\* d[key] = value
Put(d, k, v) == (k :> v) @@ d

\* faulty variant: the check is missing
Truthy_Always(x) == TRUE

\* the truth value Python gives a string or None in `if x:`
Truthy(x) == x # NoneVal /\ x # ""

\* "{x}" inside an f-string
Fmt(x) == IF x = NoneVal THEN "None" ELSE x

(***************************************************************************)
(* The command catalog.                                                    *)
(***************************************************************************)
available_commands == <<"get", "describe", "logs", "rollout restart">>

available_sub_commands ==
    ("get" :> <<"pods", "nodes", "services">>) @@
    ("describe" :> <<"pods">>) @@
    ("logs" :> <<"pods">>) @@
    ("rollout restart" :> <<"deployments">>)

ActionIds == {"kubectl_command_select", "kubectl_sub_command_select",
              "kubectl_namespace_select", "kubectl_pod_select",
              "kubectl_deployment_select"}

VARIABLES
    selected_actions,   \* shared.selected_actions: channel id -> dict
    slack_menus,        \* per channel and action id, the option values of the menus posted so far
    last,               \* the interaction handled last and its outbound effects
    env_api_key,        \* os.environ.get('GEMINI_API_KEY')
    mcp_servers,        \* the names registered with the tool registry
    chat,               \* the negotiation in progress: position, locals, calls made, reply
    server_name,        \* which tool server program the process runs: "joke" or "time"
    proc,               \* the tool server process: "not_started", "running", "exited", "crashed"
    stdin,              \* the lines written to the process and not read yet
    consumed,           \* the lines the process has read, in order
    stdout,             \* the lines the process has printed, in order
    servers,            \* MCPManager.servers: the names registered
    sessions,           \* MCPManager.sessions: name -> the session cached for it
    pool,               \* every session object created so far, cached or not
    task,               \* the MCPManager operation under way and its position
    done,               \* the MCPManager operation that ended last and how
    run,                \* the process executor call under way or returned last
    children,           \* every subprocess launched so far and what became of it
    callers,            \* the list_tools / call_tool coroutines running side by side
    racing,             \* a namespace selection handled statement by statement: position and locals
    rb                  \* the execute_rollback call under way: arguments, position, commands issued, result

selVars == <<selected_actions, slack_menus, last>>
chatVars == <<env_api_key, mcp_servers, chat>>
srvVars == <<server_name, proc, stdin, consumed, stdout>>
mgrVars == <<servers, sessions, pool, task, done>>
runVars == <<run, children>>
coVars == <<callers>>
raceVars == <<racing>>
rbVars == <<rb>>
vars == <<selected_actions, slack_menus, last, env_api_key, mcp_servers, chat,
          server_name, proc, stdin, consumed, stdout,
          servers, sessions, pool, task, done, run, children, callers, racing, rb>>

\* `last` before any interaction: nothing executed, nothing posted
NoEvent == [action_id |-> "none", channel |-> "none", value |-> "none",
            before |-> EmptyDict, executed |-> <<>>, posted |-> <<>>]

\* slack_client.chat_postMessage(channel=..., blocks=<menu>)
MenuMsg(action_id, options) == [kind |-> "menu", action_id |-> action_id, options |-> options]

\* slack_client.chat_postMessage(channel=..., text=...)
TextMsg(text) == [kind |-> "text", text |-> text]

\* the menus of channel c once one more menu has been posted there
PostMenu(c, action_id, options) ==
    [slack_menus EXCEPT ![c][action_id] = @ \cup options]

\* the record of one handled event: the payload, the store the handler found,
\* the commands it handed to run_kubectl_command and the messages it posted
Handled(action_id, c, v, executed, posted) ==
    [action_id |-> action_id, channel |-> c, value |-> v,
     before |-> selected_actions, executed |-> executed, posted |-> posted]

\* the event handled last posted one menu, for this action id
PostedMenu(action_id) ==
    /\ Len(last.posted) = 1
    /\ last.posted[1].kind = "menu"
    /\ last.posted[1].action_id = action_id

\* shared.selected_actions.get(channel_id, {})
Entry(c) == Get(selected_actions, c, EmptyDict)

(***************************************************************************)
(* The cluster helpers (k8s.get_available_* and k8s.run_kubectl_command).  *)
(* A listing returns the names the cluster holds, or [] when kubectl       *)
(* fails; the executor posts the output or the error text.                 *)
(***************************************************************************)
get_available_namespaces == {ClusterNamespaces, {}}
get_available_pods(namespace) == {ClusterPods, {}}
get_deployments(namespace) == {ClusterDeployments, {}}

KubectlOutcomes == {"output", "error"}

\* the message run_kubectl_command posts for a command that ended with `outcome`
run_kubectl_command(command, outcome) == [kind |-> outcome, command |-> command]

(***************************************************************************)
(* What each handler computes.                                             *)
(***************************************************************************)
\* faulty variant: the command is written into the existing entry instead of replacing it
CommandSelectStore_InPlace(c, v) ==
    IF c \in DOMAIN selected_actions
    THEN [selected_actions EXCEPT ![c] = Put(@, "command", v)]
    ELSE Put(selected_actions, c, ("command" :> v))

\* shared.selected_actions[channel_id] = {"command": selected_command}
CommandSelectStore(c, v) == Put(selected_actions, c, ("command" :> v))

\* faulty variant: the sub-command is written into every entry of the store
SubCommandSelectStore_EveryEntry(c, v) ==
    [d \in DOMAIN selected_actions |-> Put(selected_actions[d], "sub_command", v)]

\* if channel_id in shared.selected_actions: ...[channel_id]["sub_command"] = v
SubCommandSelectStore(c, v) ==
    IF c \in DOMAIN selected_actions
    THEN [selected_actions EXCEPT ![c] = Put(@, "sub_command", v)]
    ELSE selected_actions

\* faulty variant: the namespace selection starts the entry afresh, keeping
\* only the namespace
NamespaceSelectStore_Afresh(c, v) ==
    IF c \in DOMAIN selected_actions
    THEN [selected_actions EXCEPT ![c] = ("namespace" :> v)]
    ELSE selected_actions

\* faulty variant: a namespace selection on an entry that already holds a namespace
\* treats the flow as finished and drops the entry
NamespaceSelectStore_DropFinished(c, v) ==
    IF c \in DOMAIN selected_actions
    THEN IF "namespace" \in DOMAIN selected_actions[c]
         THEN [d \in DOMAIN selected_actions \ {c} |-> selected_actions[d]]
         ELSE [selected_actions EXCEPT ![c] = Put(@, "namespace", v)]
    ELSE selected_actions

\* if channel_id in shared.selected_actions: ...[channel_id]["namespace"] = v
NamespaceSelectStore(c, v) ==
    IF c \in DOMAIN selected_actions
    THEN [selected_actions EXCEPT ![c] = Put(@, "namespace", v)]
    ELSE selected_actions

\* slack_blocks.build_kubectl_sub_command_block: available_sub_commands.get(cmd, [])
SubCommandOptions(cmd) == Range(Get(available_sub_commands, cmd, <<>>))

\* faulty variant: every namespace selection goes straight to the execution
NamespaceBranch_AlwaysExecute(cmd, sub) == "execute"

\* faulty variant: the pod list is shown for describe only
NamespaceBranch_DescribeOnly(cmd, sub) ==
    IF cmd \in {"describe"} /\ sub = "pods" THEN "pod_menu"
    ELSE IF cmd \in {"rollout restart"} /\ sub = "deployments" THEN "deployment_menu"
    ELSE "execute"

\* the branch handle_kubectl_namespace_select takes
NamespaceBranch(cmd, sub) ==
    IF cmd \in {"describe", "logs"} /\ sub = "pods" THEN "pod_menu"
    ELSE IF cmd \in {"rollout restart"} /\ sub = "deployments" THEN "deployment_menu"
    ELSE "execute"

\* faulty variant: the sub-command is left out of the command
NamespaceCommand_NoSubCommand(cmd, sub, ns) == <<"kubectl", Fmt(cmd), "-n", Fmt(ns)>>

\* f"kubectl {selected_command} {selected_sub_command} -n {selected_namespace}"
NamespaceCommand(cmd, sub, ns) == <<"kubectl", Fmt(cmd), Fmt(sub), "-n", Fmt(ns)>>

\* faulty variant: no special case for logs
PodCommand_NoLogsCase(cmd, pod, ns) ==
    <<"kubectl", Fmt(cmd), "pod", Fmt(pod), "-n", Fmt(ns)>>

\* the command handle_kubectl_pod_select builds
PodCommand(cmd, pod, ns) ==
    IF cmd \in {"logs"}
    THEN <<"kubectl", Fmt(cmd), Fmt(pod), "-n", Fmt(ns)>>
    ELSE <<"kubectl", Fmt(cmd), "pod", Fmt(pod), "-n", Fmt(ns)>>

\* the command handle_kubectl_deployment_select builds
DeploymentCommand(cmd, dep, ns) ==
    <<"kubectl", Fmt(cmd), "deployment", Fmt(dep), "-n", Fmt(ns)>>

NamespaceNotSelected == "Namespace not selected. Please start over."

(***************************************************************************)
(* The state after module initialisation: no selection, no menu posted.    *)
(***************************************************************************)
SelInit ==
    /\ selected_actions = EmptyDict
    /\ slack_menus = [c \in Channels |-> [a \in ActionIds |-> {}]]
    /\ last = NoEvent

\* handle_mention / message_count: post the command menu
Mention(c) ==
    LET menu == MenuMsg("kubectl_command_select", Range(available_commands)) IN
    /\ slack_menus' = PostMenu(c, "kubectl_command_select", menu.options)
    /\ last' = Handled("app_mention", c, "none", <<>>, <<menu>>)
    /\ UNCHANGED <<selected_actions, chatVars, srvVars, mgrVars, runVars, coVars, raceVars, rbVars>>

\* the process is started again: the store is empty, the channels keep their menus
Restart ==
    /\ selected_actions # EmptyDict
    /\ selected_actions' = EmptyDict
    /\ last' = NoEvent
    /\ UNCHANGED <<slack_menus, chatVars, srvVars, mgrVars, runVars, coVars, raceVars, rbVars>>

handle_kubectl_command_select(c, v) ==
    LET menu == MenuMsg("kubectl_sub_command_select", SubCommandOptions(v)) IN
    /\ v \in slack_menus[c]["kubectl_command_select"]
    /\ selected_actions' = CommandSelectStore(c, v)
    /\ slack_menus' = PostMenu(c, "kubectl_sub_command_select", menu.options)
    /\ last' = Handled("kubectl_command_select", c, v, <<>>, <<menu>>)
    /\ UNCHANGED <<chatVars, srvVars, mgrVars, runVars, coVars, raceVars, rbVars>>

handle_kubectl_sub_command_select(c, v) ==
    /\ v \in slack_menus[c]["kubectl_sub_command_select"]
    /\ selected_actions' = SubCommandSelectStore(c, v)
    /\ \E namespaces \in get_available_namespaces :
        LET menu == MenuMsg("kubectl_namespace_select", namespaces) IN
        /\ slack_menus' = PostMenu(c, "kubectl_namespace_select", menu.options)
        /\ last' = Handled("kubectl_sub_command_select", c, v, <<>>, <<menu>>)
    /\ UNCHANGED <<chatVars, srvVars, mgrVars, runVars, coVars, raceVars, rbVars>>

handle_kubectl_namespace_select(c, v) ==
    /\ v \in slack_menus[c]["kubectl_namespace_select"]
    /\ selected_actions' = NamespaceSelectStore(c, v)
    /\ LET entry == Get(selected_actions', c, EmptyDict)
           selected_command == Get(entry, "command", NoneVal)
           selected_sub_command == Get(entry, "sub_command", NoneVal)
           branch == NamespaceBranch(selected_command, selected_sub_command)
       IN
       CASE branch = "pod_menu" ->
              \E pods \in get_available_pods(v) :
                LET menu == MenuMsg("kubectl_pod_select", pods) IN
                /\ slack_menus' = PostMenu(c, "kubectl_pod_select", menu.options)
                /\ last' = Handled("kubectl_namespace_select", c, v, <<>>, <<menu>>)
         [] branch = "deployment_menu" ->
              \E deployments \in get_deployments(v) :
                LET menu == MenuMsg("kubectl_deployment_select", deployments) IN
                /\ slack_menus' = PostMenu(c, "kubectl_deployment_select", menu.options)
                /\ last' = Handled("kubectl_namespace_select", c, v, <<>>, <<menu>>)
         [] OTHER ->
              \E outcome \in KubectlOutcomes :
                LET command == NamespaceCommand(selected_command, selected_sub_command, v) IN
                /\ last' = Handled("kubectl_namespace_select", c, v, <<command>>,
                                   <<run_kubectl_command(command, outcome)>>)
                /\ UNCHANGED slack_menus
    /\ UNCHANGED <<chatVars, srvVars, mgrVars, runVars, coVars, raceVars, rbVars>>

handle_kubectl_pod_select(c, v) ==
    LET selected_namespace == Get(Entry(c), "namespace", "")
        selected_command == Get(Entry(c), "command", NoneVal)
    IN
    /\ v \in slack_menus[c]["kubectl_pod_select"]
    /\ IF Truthy(selected_namespace)
       THEN \E outcome \in KubectlOutcomes :
              LET command == PodCommand(selected_command, v, selected_namespace) IN
              last' = Handled("kubectl_pod_select", c, v, <<command>>,
                              <<run_kubectl_command(command, outcome)>>)
       ELSE last' = Handled("kubectl_pod_select", c, v, <<>>,
                            <<TextMsg(NamespaceNotSelected)>>)
    /\ UNCHANGED <<selected_actions, slack_menus, chatVars, srvVars, mgrVars, runVars, coVars, raceVars, rbVars>>

handle_kubectl_deployment_select(c, v) ==
    LET selected_namespace == Get(Entry(c), "namespace", "")
        selected_command == Get(Entry(c), "command", NoneVal)
    IN
    /\ v \in slack_menus[c]["kubectl_deployment_select"]
    /\ IF Truthy(selected_namespace)
       THEN \E outcome \in KubectlOutcomes :
              LET command == DeploymentCommand(selected_command, v, selected_namespace) IN
              last' = Handled("kubectl_deployment_select", c, v, <<command>>,
                              <<run_kubectl_command(command, outcome)>>)
       ELSE last' = Handled("kubectl_deployment_select", c, v, <<>>,
                            <<TextMsg(NamespaceNotSelected)>>)
    /\ UNCHANGED <<selected_actions, slack_menus, chatVars, srvVars, mgrVars, runVars, coVars, raceVars, rbVars>>

\* handle_interactions: dispatch on the action id of the payload
handle_interactions_for(c) ==
        \/ \E v \in Range(available_commands) : handle_kubectl_command_select(c, v)
        \/ \E v \in slack_menus[c]["kubectl_sub_command_select"] :
                handle_kubectl_sub_command_select(c, v)
        \/ \E v \in slack_menus[c]["kubectl_namespace_select"] :
                handle_kubectl_namespace_select(c, v)
        \/ \E v \in slack_menus[c]["kubectl_pod_select"] :
                handle_kubectl_pod_select(c, v)
        \/ \E v \in slack_menus[c]["kubectl_deployment_select"] :
                handle_kubectl_deployment_select(c, v)

handle_interactions == \E c \in Channels : handle_interactions_for(c)

(***************************************************************************)
(* The negotiator, chat_with_mcp (src/gemini_integration.py).              *)
(*                                                                         *)
(* A text is a sequence of tokens: prose, a fence marker, the text of one  *)
(* JSON object, or a truncated object (an opening brace and no closing     *)
(* one).  A JSON value is a pair <<type, literal>>.                        *)
(***************************************************************************)
JStr(x) == <<"str", x>>
JTrue == <<"bool", "true">>
JFalse == <<"bool", "false">>
JNull == <<"null", "null">>
JEmptyObject == <<"object", "{}">>

Prose == [kind |-> "prose"]
FenceJson == [kind |-> "fence_json"]
Fence == [kind |-> "fence"]
Truncated == [kind |-> "truncated"]
ObjectText(d) == [kind |-> "object", value |-> d]

ToolRequestText(server, tool) ==
    ObjectText(("use_tool" :> JTrue) @@ ("server" :> JStr(server)) @@
               ("tool" :> JStr(tool)) @@ ("arguments" :> JEmptyObject))

\* user messages, as the words they are made of
UserMessages == {<<"What", "time", "is", "it">>, <<"tell", "me", "a", "joke">>,
                 <<"hello">>, <<"a", "funny", "timeout">>}

\* str.lower() on a word
Lower(w) == IF w = "What" THEN "what" ELSE w

\* `kw in word`, for the words of UserMessages
SubstringOf(kw, w) == w = kw \/ (kw = "time" /\ w = "timeout")

\* any(word in user_lower for word in keywords)
ContainsAny(message, keywords) ==
    \E i \in DOMAIN message : \E kw \in keywords : SubstringOf(kw, Lower(message[i]))

\* every multi-word trigger ("what time", "current time") contains "time"
TimeKeywords == {"time", "clock"}
JokeKeywords == {"joke", "funny", "laugh", "humor"}

\* str.strip() on the server and tool names the model may send
Strip(x) == IF x = " time " THEN "time" ELSE x

\* what the model may answer to the tool prompt
ResponseTexts ==
    { <<Prose>>,
      <<ToolRequestText("time", "get_current_time")>>,
      <<FenceJson, ToolRequestText("joke", "get_random_joke"), Fence>>,
      <<Fence, ToolRequestText(" time ", "get_timestamp"), Fence>>,
      <<Prose, ToolRequestText("weather", "get_forecast"), Prose>>,
      <<Truncated>>,
      <<ToolRequestText("time", "get_current_time"), Prose,
        ToolRequestText("joke", "get_random_joke")>>,
      <<ObjectText(("use_tool" :> JTrue) @@ ("tool" :> JStr("get_current_time")))>>,
      <<ObjectText(("use_tool" :> JTrue) @@ ("server" :> JNull) @@
                   ("tool" :> JStr("get_current_time")))>>,
      <<ObjectText(("use_tool" :> JFalse))>>,
      <<ObjectText(("use_tool" :> JFalse) @@ ("server" :> JStr("time")) @@
                   ("tool" :> JStr("get_current_time")) @@ ("arguments" :> JEmptyObject))>>,
      <<ObjectText(("answer" :> JStr("42")))>> }

HasKind(text, kinds) == \E i \in DOMAIN text : text[i].kind \in kinds

FirstOf(text, kinds) == CHOOSE i \in DOMAIN text :
    text[i].kind \in kinds /\ \A j \in 1..(i - 1) : text[j].kind \notin kinds

LastOf(text, kinds) == CHOOSE i \in DOMAIN text :
    text[i].kind \in kinds /\ \A j \in (i + 1)..Len(text) : text[j].kind \notin kinds

\* text.split(marker)[1], the marker being a fence of one of `kinds`
AfterFirst(text, kinds) == SubSeq(text, FirstOf(text, kinds) + 1, Len(text))

\* text.split("```")[0]
BeforeFence(text) ==
    IF HasKind(text, {"fence", "fence_json"})
    THEN SubSeq(text, 1, FirstOf(text, {"fence", "fence_json"}) - 1)
    ELSE text

\* lines 128-132: remove markdown code blocks if present
CleanResponse(text) ==
    IF HasKind(text, {"fence_json"}) THEN BeforeFence(AfterFirst(text, {"fence_json"}))
    ELSE IF HasKind(text, {"fence"}) THEN BeforeFence(AfterFirst(text, {"fence"}))
    ELSE text

\* "use_tool" in cleaned_response
MentionsUseTool(text) ==
    \E i \in DOMAIN text :
        \/ text[i].kind = "truncated"
        \/ text[i].kind = "object" /\ "use_tool" \in DOMAIN text[i].value

\* lines 135-138: "{" in cleaned_response and "use_tool" in cleaned_response
LooksLikeJson(text) == HasKind(text, {"object", "truncated"}) /\ MentionsUseTool(text)

\* cleaned_response[find("{") : rfind("}") + 1]
JsonStr(text) ==
    IF HasKind(text, {"object"})
    THEN SubSeq(text, FirstOf(text, {"object", "truncated"}), LastOf(text, {"object"}))
    ELSE <<>>

\* json.loads succeeds on the text of exactly one object
Decodes(json_str) == Len(json_str) = 1 /\ json_str[1].kind = "object"

\* lines 126-152 up to the server check; the outcome of reading the response:
\*   "text"      no tool request (no JSON looked for, JSONDecodeError, use_tool not true)
\*   "attribute" .strip() on a value that is no string: AttributeError, not caught at line 194
\*   "request"   server, tool and arguments were read
ReadRequest(text) ==
    LET cleaned == CleanResponse(text)
        json_str == JsonStr(cleaned)
        tool_request == json_str[1].value
        server == Get(tool_request, "server", JStr(""))
        tool == Get(tool_request, "tool", JStr(""))
    IN
    IF ~LooksLikeJson(cleaned) THEN [outcome |-> "text"]
    ELSE IF ~Decodes(json_str) THEN [outcome |-> "text"]
    ELSE IF Get(tool_request, "use_tool", JNull) # JTrue THEN [outcome |-> "text"]
    ELSE IF server[1] # "str" \/ tool[1] # "str" THEN [outcome |-> "attribute"]
    ELSE [outcome |-> "request", server |-> Strip(server[2]), tool |-> Strip(tool[2]),
          arguments |-> Get(tool_request, "arguments", JEmptyObject)]

(***************************************************************************)
(* The environment of the negotiator: the API key, the tool registry       *)
(* (get_mcp_client(): list_servers, list_all_tools, call_tool) and the     *)
(* language model.  Every call may return or raise.                        *)
(***************************************************************************)
ApiKeys == {"key", " ", "", NoneVal}

\* faulty variant: the key is not stripped before it is compared with ""
is_gemini_available_NoStrip == env_api_key # NoneVal /\ env_api_key # ""

\* is_gemini_available(): api_key is not None and api_key.strip() != ""
is_gemini_available == env_api_key # NoneVal /\ env_api_key \notin {"", " "}

ServerSets == {{}, {"time", "joke"}, {"joke"}, {"filesystem"}}

\* the tools a server reports at discovery
ToolsOf(server) ==
    IF server = "time" THEN {"get_current_time", "get_timestamp"}
    ELSE IF server = "joke" THEN {"get_random_joke", "get_joke_by_index", "count_jokes"}
    ELSE {"read_file"}

\* list_all_tools(): one key per registered server; a server whose discovery
\* failed contributes an empty list; `answered` tells which servers answered
AllTools(answered) == [srv \in mcp_servers |-> IF answered[srv] THEN ToolsOf(srv) ELSE {}]

\* str(e) of the exceptions the collaborators raise
ExcMessages == {"connection reset", "quota exceeded"}

\* the text call_tool returns
ToolResultTexts ==
    { <<ObjectText(("human_readable" :> JStr("02:30 PM on Friday")) @@
                   ("time_only" :> JStr("02:30 PM")))>>,
      <<ObjectText(("time_only" :> JStr("02:30 PM")))>>,
      <<ObjectText(("setup" :> JStr("Why dark mode?")) @@
                   ("punchline" :> JStr("Light attracts bugs!")))>>,
      <<Prose>> }

\* response.text of the direct call and of the formatting call
ModelAnswers == {"It is half past two."}

(***************************************************************************)
(* Replies.                                                                *)
(***************************************************************************)
FixedReply(text) == [kind |-> "fixed", text |-> text]
NotConfiguredReply == FixedReply("Gemini API key is not configured.")
InvalidServerReply ==
    FixedReply("Sorry, I tried to check the time but the service isn't available right now.")
ToolFailedReply ==
    FixedReply("Sorry, I tried to get that information but encountered an issue. Please try again!")
TimeTroubleReply == FixedReply("Sorry, I'm having trouble accessing the time right now.")
JokeTroubleReply == FixedReply("Sorry, I can't think of a joke right now!")
CouldNotGenerateReply ==
    FixedReply("Sorry, I couldn't generate a response. Please try again.")

\* f"Sorry, I encountered an error: {str(e)}"
ErrorReply(e) == [kind |-> "error", text |-> "Sorry, I encountered an error: ", message |-> e]

\* return response_text
ModelTextReply(text) == [kind |-> "model_text", text |-> text]

\* faulty variant: the footer always names the time tool
FormattedReply_FixedFooter(answer, server, tool) ==
    [kind |-> "formatted", answer |-> answer, footer |-> <<"time", "get_current_time">>]

\* final_response.text.strip() + f"\n\n_Tool used: `{server}.{tool}`_"
FormattedReply(answer, server, tool) ==
    [kind |-> "formatted", answer |-> answer, footer |-> <<server, tool>>]

\* lines 206-207: the reply built from the time tool's result
TimeReply(tool_result) ==
    IF ~Decodes(tool_result) THEN TimeTroubleReply
    ELSE LET result_json == tool_result[1].value IN
         [kind |-> "time",
          value |-> Get(result_json, "human_readable",
                        Get(result_json, "time_only", JStr("unavailable"))),
          footer |-> <<"time", "get_current_time">>]

\* lines 217-218: the reply built from the joke tool's result
JokeReply(tool_result) ==
    IF ~Decodes(tool_result) THEN JokeTroubleReply
    ELSE LET result_json == tool_result[1].value IN
         [kind |-> "joke",
          setup |-> Get(result_json, "setup", JStr("")),
          punchline |-> Get(result_json, "punchline", JStr("")),
          footer |-> <<"joke", "get_random_joke">>]

(***************************************************************************)
(* The negotiation, one action per call to a collaborator.                 *)
(***************************************************************************)
NoRequest == [outcome |-> "none"]
NoResult == <<>>

\* `discovery` tells how far tool discovery went: "none" (not reached),
\* "no_servers" (list_servers() returned nothing), "failed" (list_all_tools()
\* raised) or "listed"
ChatIdle == [pc |-> "idle", user_message |-> <<>>, discovery |-> "none", all_tools |-> <<>>,
             response_text |-> <<>>, request |-> NoRequest, tool_result |-> NoResult,
             tool_raised |-> FALSE, calls |-> <<>>, reply |-> FixedReply("")]

ModelCall(prompt) == [kind |-> "model", prompt |-> prompt]

\* a model call whose prompt embeds `given`
ModelCallWith(prompt, given) == [kind |-> "model", prompt |-> prompt, given |-> given]

\* tool_instructions.get_tool_instruction: TOOL_INSTRUCTIONS.get(server, {}).get(tool, "")
get_tool_instruction(server, tool) ==
    IF \/ server = "joke" /\ tool \in {"get_random_joke", "get_joke_by_index", "count_jokes"}
       \/ server = "time" /\ tool \in {"get_current_time", "get_timestamp"}
    THEN <<"TOOL_INSTRUCTIONS", server, tool>>
    ELSE <<>>

\* lines 165-174: the formatting prompt holds the question, the tool, the
\* server, the tool's result and the custom instruction
FormatPrompt(c) ==
    [user_message |-> c.user_message, server |-> c.request.server, tool |-> c.request.tool,
     tool_result |-> c.tool_result,
     custom_instruction |-> get_tool_instruction(c.request.server, c.request.tool)]
ToolCall(server, tool, arguments) ==
    [kind |-> "tool", server |-> server, tool |-> tool, arguments |-> arguments]

\* return <reply>
Return(c, reply) == [c EXCEPT !.pc = "done", !.reply = reply]

\* faulty variant: the keyword fallback is never taken
FallbackRoute_Never(message) == "none"

\* lines 200-212: which tool the keyword fallback forces
FallbackRoute(message) ==
    IF ContainsAny(message, TimeKeywords) THEN "force_time"
    ELSE IF ContainsAny(message, JokeKeywords) THEN "force_joke"
    ELSE "none"

\* faulty variant: a failed tool call falls through to the keyword fallback
ToolCallFailed_FallsThrough(c) ==
    IF FallbackRoute(c.user_message) = "none"
    THEN Return([c EXCEPT !.tool_raised = TRUE], ToolFailedReply)
    ELSE [c EXCEPT !.tool_raised = TRUE, !.pc = FallbackRoute(c.user_message)]

\* lines 190-192: except Exception around the tool call
ToolCallFailed(c) == Return([c EXCEPT !.tool_raised = TRUE], ToolFailedReply)

\* faulty variant: chat_with_mcp has no top-level try
ExceptClause_NoOuter(pc) ==
    IF pc \in {"list_servers", "first_call"} THEN "none"
    ELSE IF pc = "list_all_tools" THEN "discovery"
    ELSE IF pc \in {"call_tool", "second_call"} THEN "tool"
    ELSE IF pc = "force_time" THEN "force_time"
    ELSE IF pc = "force_joke" THEN "force_joke"
    ELSE IF pc = "direct" THEN "direct"
    ELSE "none"

\* the except clause in force at each call site: lines 226-228 (outer), 77-79
\* (discovery), 190-192 (tool), 208-210, 219-221, and 51-53 of chat_with_gemini
ExceptClause(pc) ==
    IF pc \in {"list_servers", "first_call"} THEN "outer"
    ELSE IF pc = "list_all_tools" THEN "discovery"
    ELSE IF pc \in {"call_tool", "second_call"} THEN "tool"
    ELSE IF pc = "force_time" THEN "force_time"
    ELSE IF pc = "force_joke" THEN "force_joke"
    ELSE IF pc = "direct" THEN "direct"
    ELSE "none"

\* an exception whose str() is e is raised at the call site c.pc; with no
\* clause to catch it, it leaves chat_with_mcp (pc "raised")
Raised(c, e) ==
    LET clause == ExceptClause(c.pc) IN
    IF clause = "outer" THEN Return(c, ErrorReply(e))
    ELSE IF clause = "discovery" THEN [c EXCEPT !.pc = "direct", !.discovery = "failed"]
    ELSE IF clause = "tool"
         THEN IF c.pc = "call_tool" THEN ToolCallFailed(c) ELSE Return(c, ToolFailedReply)
    ELSE IF clause = "force_time" THEN Return([c EXCEPT !.tool_raised = TRUE], TimeTroubleReply)
    ELSE IF clause = "force_joke" THEN Return([c EXCEPT !.tool_raised = TRUE], JokeTroubleReply)
    ELSE IF clause = "direct" THEN Return(c, ErrorReply(e))
    ELSE [c EXCEPT !.pc = "raised"]

\* faulty variant: the server name is not validated
ServerRegistered_Unchecked(server) == TRUE

\* line 150: server in mcp.list_servers()
ServerRegistered(server) == server \in mcp_servers

\* faulty variant: `if not all_tools:` looks at the mapping, not at its lists
NoToolsOffered_EmptyMapping(all_tools) == DOMAIN all_tools = {}

\* line 74: not any(all_tools.values())
NoToolsOffered(all_tools) == \A srv \in DOMAIN all_tools : all_tools[srv] = {}

\* lines 122-224: what follows the model's answer to the tool prompt
AfterResponse(c, text) ==
    LET request == ReadRequest(text)
        c1 == [c EXCEPT !.response_text = text, !.request = request]
    IN
    IF request.outcome = "attribute"
    THEN Raised(c1, "'NoneType' object has no attribute 'strip'")
    ELSE IF request.outcome = "request"
    THEN IF ~ServerRegistered(request.server)
         THEN Return(c1, InvalidServerReply)
         ELSE [c1 EXCEPT !.pc = "call_tool"]
    ELSE IF FallbackRoute(c.user_message) = "none"
    THEN Return(c1, ModelTextReply(text))
    ELSE [c1 EXCEPT !.pc = FallbackRoute(c.user_message)]

ChatInit ==
    /\ env_api_key \in ApiKeys
    /\ mcp_servers \in ServerSets
    /\ chat = ChatIdle

\* lines 55-61: a direct message arrives
ChatReceive(message) ==
    /\ chat.pc = "idle"
    /\ chat' = IF is_gemini_available
               THEN [ChatIdle EXCEPT !.pc = "list_servers", !.user_message = message]
               ELSE Return([ChatIdle EXCEPT !.user_message = message], NotConfiguredReply)
    /\ UNCHANGED <<env_api_key, mcp_servers, selVars, srvVars, mgrVars, runVars, coVars, raceVars, rbVars>>

\* lines 63-69: get_mcp_client(), mcp.list_servers()
ListServers ==
    /\ chat.pc = "list_servers"
    /\ \/ \E e \in ExcMessages : chat' = Raised(chat, e)
       \/ chat' = IF mcp_servers = {}
                  THEN [chat EXCEPT !.pc = "direct", !.discovery = "no_servers"]
                  ELSE [chat EXCEPT !.pc = "list_all_tools"]
    /\ UNCHANGED <<env_api_key, mcp_servers, selVars, srvVars, mgrVars, runVars, coVars, raceVars, rbVars>>

\* lines 71-79: mcp.list_all_tools()
ListAllTools ==
    /\ chat.pc = "list_all_tools"
    /\ \/ \E e \in ExcMessages : chat' = Raised(chat, e)
       \/ \E answered \in [mcp_servers -> BOOLEAN] :
            LET all_tools == AllTools(answered)
                listed == [chat EXCEPT !.discovery = "listed", !.all_tools = all_tools]
            IN
            chat' = IF NoToolsOffered(all_tools)
                    THEN [listed EXCEPT !.pc = "direct"]
                    ELSE [listed EXCEPT !.pc = "first_call"]
    /\ UNCHANGED <<env_api_key, mcp_servers, selVars, srvVars, mgrVars, runVars, coVars, raceVars, rbVars>>

\* lines 113-224: the model is asked with the tool prompt and its answer is read
FirstModelCall ==
    /\ chat.pc = "first_call"
    /\ LET called == [chat EXCEPT !.calls = Append(@, ModelCall("tool_prompt"))] IN
       \/ \E e \in ExcMessages : chat' = Raised(called, e)
       \/ \E text \in ResponseTexts : chat' = AfterResponse(called, text)
    /\ UNCHANGED <<env_api_key, mcp_servers, selVars, srvVars, mgrVars, runVars, coVars, raceVars, rbVars>>

\* lines 156-159, 190-192: mcp.call_tool(server, tool, arguments)
CallTool ==
    /\ chat.pc = "call_tool"
    /\ LET r == chat.request
           called == [chat EXCEPT !.calls = Append(@, ToolCall(r.server, r.tool, r.arguments))]
       IN
       \/ \E e \in ExcMessages : chat' = Raised(called, e)
       \/ \E result \in ToolResultTexts :
            chat' = [called EXCEPT !.pc = "second_call", !.tool_result = result]
    /\ UNCHANGED <<env_api_key, mcp_servers, selVars, srvVars, mgrVars, runVars, coVars, raceVars, rbVars>>

\* lines 161-192: the model phrases the tool result; the footer is appended
SecondModelCall ==
    /\ chat.pc = "second_call"
    /\ LET called == [chat EXCEPT
                        !.calls = Append(@, ModelCallWith("format_prompt", FormatPrompt(chat)))]
       IN
       \/ \E e \in ExcMessages : chat' = Raised(called, e)
       \/ \E answer \in ModelAnswers :
            chat' = Return(called, FormattedReply(answer, chat.request.server, chat.request.tool))
    /\ UNCHANGED <<env_api_key, mcp_servers, selVars, srvVars, mgrVars, runVars, coVars, raceVars, rbVars>>

\* lines 201-210: the time tool is forced
ForceTime ==
    /\ chat.pc = "force_time"
    /\ LET called == [chat EXCEPT
                        !.calls = Append(@, ToolCall("time", "get_current_time", JEmptyObject))]
       IN
       \/ \E e \in ExcMessages : chat' = Raised(called, e)
       \/ /\ "time" \in mcp_servers
          /\ \E result \in ToolResultTexts :
                chat' = Return([called EXCEPT !.tool_result = result], TimeReply(result))
    /\ UNCHANGED <<env_api_key, mcp_servers, selVars, srvVars, mgrVars, runVars, coVars, raceVars, rbVars>>

\* lines 212-221: the joke tool is forced
ForceJoke ==
    /\ chat.pc = "force_joke"
    /\ LET called == [chat EXCEPT
                        !.calls = Append(@, ToolCall("joke", "get_random_joke", JEmptyObject))]
       IN
       \/ \E e \in ExcMessages : chat' = Raised(called, e)
       \/ /\ "joke" \in mcp_servers
          /\ \E result \in ToolResultTexts :
                chat' = Return([called EXCEPT !.tool_result = result], JokeReply(result))
    /\ UNCHANGED <<env_api_key, mcp_servers, selVars, srvVars, mgrVars, runVars, coVars, raceVars, rbVars>>

\* chat_with_gemini: the direct model call with the raw user message
DirectChat ==
    /\ chat.pc = "direct"
    /\ LET called == [chat EXCEPT
                        !.calls = Append(@, ModelCallWith("direct", chat.user_message))]
       IN
       \/ \E e \in ExcMessages : chat' = Raised(called, e)
       \/ chat' = Return(called, CouldNotGenerateReply)
       \/ \E answer \in ModelAnswers : chat' = Return(called, ModelTextReply(<<answer>>))
    /\ UNCHANGED <<env_api_key, mcp_servers, selVars, srvVars, mgrVars, runVars, coVars, raceVars, rbVars>>

\* chat_with_mcp has returned; the next message can be taken
ChatReturn ==
    /\ chat.pc = "done"
    /\ chat' = ChatIdle
    /\ UNCHANGED <<env_api_key, mcp_servers, selVars, srvVars, mgrVars, runVars, coVars, raceVars, rbVars>>

ChatNext ==
    \/ \E message \in UserMessages : ChatReceive(message)
    \/ ListServers
    \/ ListAllTools
    \/ FirstModelCall
    \/ CallTool
    \/ SecondModelCall
    \/ ForceTime
    \/ ForceJoke
    \/ DirectChat
    \/ ChatReturn

\* the selection store the negotiator runs beside
SampleStores == {EmptyDict,
                 "C1" :> (("command" :> "logs") @@ ("sub_command" :> "pods") @@
                          ("namespace" :> "default"))}

\* no MCPManager operation under way or ended
NoSnapshot == [servers |-> {}, sessions |-> <<>>, pool |-> <<>>]
NoTask == [op |-> "none", name |-> "none", pc |-> "idle", silent |-> FALSE, session |-> 0,
           queue |-> {}, all_tools |-> <<>>, failed |-> {}, before |-> NoSnapshot]
NoneDone == [op |-> "none", name |-> "none", result |-> "none", all_tools |-> <<>>,
             failed |-> {}, before |-> NoSnapshot]

\* MCPManager.__init__: nothing registered, nothing cached
MgrIdle ==
    /\ servers = {}
    /\ sessions = <<>>
    /\ pool = <<>>
    /\ task = NoTask
    /\ done = NoneDone

NoOutcome == [success |-> FALSE, error |-> "not run"]

NoRollback == [pc |-> "idle", app_name |-> "none", revision_id |-> 0, confirmed |-> FALSE,
               issued |-> <<>>, status |-> NoOutcome, history |-> NoOutcome,
               result |-> [pending |-> TRUE]]

\* execute_rollback has not been called
RbIdle == rb = NoRollback

NoRace == [pc |-> "idle", channel |-> "none", value |-> "none",
           selected_command |-> NoneVal, selected_sub_command |-> NoneVal, held |-> {},
           writes |-> 0]

\* no namespace selection is being handled statement by statement
RaceIdle == racing = NoRace

\* the coroutines that call list_tools and call_tool side by side
Callers == {"a", "b"}

NoCall == [pc |-> "idle", op |-> "none", name |-> "none", session |-> 0]

\* no coroutine is inside list_tools or call_tool
CoIdle == callers = [t \in Callers |-> NoCall]

\* what the executor has relayed before any call
NoRelay == [kind |-> "none", command |-> <<>>]

NoRun == [pc |-> "idle", executor |-> "none", command |-> <<>>, child |-> 0,
          relayed |-> NoRelay]

\* no command has been handed to a process executor
RunIdle ==
    /\ run = NoRun
    /\ children = <<>>

\* no tool server process has been launched
SrvIdle ==
    /\ server_name = "joke"
    /\ proc = "not_started"
    /\ stdin = <<>>
    /\ consumed = <<>>
    /\ stdout = <<>>

Init ==
    /\ SelInit
    /\ env_api_key = "key"
    /\ mcp_servers = {}
    /\ chat = ChatIdle
    /\ SrvIdle
    /\ MgrIdle
    /\ RunIdle
    /\ CoIdle
    /\ RaceIdle
    /\ RbIdle

Next ==
    \/ \E c \in Channels : Mention(c)
    \/ Restart
    \/ handle_interactions

Spec == Init /\ [][Next]_vars

(***************************************************************************)
(* Flows delivered in order: after a mention the user answers each menu    *)
(* once, with an option of the menu posted last, until a command has been  *)
(* executed; a new mention starts the next flow.                           *)
(***************************************************************************)
Answering(c, action_id) ==
    /\ last.channel = c
    /\ PostedMenu(action_id)

InOrderStep(c) ==
    \/ /\ Answering(c, "kubectl_command_select")
       /\ \E v \in last.posted[1].options : handle_kubectl_command_select(c, v)
    \/ /\ Answering(c, "kubectl_sub_command_select")
       /\ \E v \in last.posted[1].options : handle_kubectl_sub_command_select(c, v)
    \/ /\ Answering(c, "kubectl_namespace_select")
       /\ \E v \in last.posted[1].options : handle_kubectl_namespace_select(c, v)
    \/ /\ Answering(c, "kubectl_pod_select")
       /\ \E v \in last.posted[1].options : handle_kubectl_pod_select(c, v)
    \/ /\ Answering(c, "kubectl_deployment_select")
       /\ \E v \in last.posted[1].options : handle_kubectl_deployment_select(c, v)

InOrderNext ==
    \/ \E c \in Channels : Mention(c)
    \/ \E c \in Channels : InOrderStep(c)

InOrderSpec == Init /\ [][InOrderNext]_vars

(***************************************************************************)
(* Two conversations using the bot: the events of both reach the same      *)
(* handlers and the same store (src/shared_state.py).  Conversation "C2"   *)
(* has been through a flow and then waits; conversation "C1" sends every   *)
(* event it can.                                                           *)
(***************************************************************************)
Conversations == {"C1", "C2"}

\* the entries a finished flow in the first namespace of the cluster leaves
\* behind: a command, one of its sub-commands and the namespace
FlowEntries ==
    UNION {
        {("command" :> cmd) @@ ("sub_command" :> sub) @@ ("namespace" :> NamespaceNames[1]) :
            sub \in SubCommandOptions(cmd)}
        : cmd \in Range(available_commands)}

\* the menus posted to a conversation whose flow left entry e behind
FlowMenus(e) ==
    [a \in ActionIds |->
        IF a = "kubectl_command_select" THEN Range(available_commands)
        ELSE IF a = "kubectl_sub_command_select" THEN SubCommandOptions(e["command"])
        ELSE IF a = "kubectl_namespace_select" THEN ClusterNamespaces
        ELSE {}]

IsolationInit ==
    /\ \E e \in FlowEntries :
        /\ selected_actions = ("C2" :> e)
        /\ slack_menus = ("C1" :> [a \in ActionIds |-> {}]) @@ ("C2" :> FlowMenus(e))
    /\ last = NoEvent
    /\ env_api_key = "key"
    /\ mcp_servers = {}
    /\ chat = ChatIdle
    /\ SrvIdle
    /\ MgrIdle
    /\ RunIdle
    /\ CoIdle
    /\ RaceIdle
    /\ RbIdle

IsolationNext ==
    \/ Mention("C1")
    \/ Restart
    \/ handle_interactions_for("C1")

IsolationSpec == IsolationInit /\ [][IsolationNext]_vars

NegotiatorInit ==
    /\ ChatInit
    /\ selected_actions \in SampleStores
    /\ slack_menus = [c \in Channels |-> [a \in ActionIds |-> {}]]
    /\ last = NoEvent
    /\ SrvIdle
    /\ MgrIdle
    /\ RunIdle
    /\ CoIdle
    /\ RaceIdle
    /\ RbIdle

NegotiatorNext == ChatNext

NegotiatorSpec == NegotiatorInit /\ [][NegotiatorNext]_vars

\* the steps of a negotiation under way: chat_with_mcp runs to its return
\* once it is called, every collaborator either returning or raising
ChatRun ==
    \/ ListServers
    \/ ListAllTools
    \/ FirstModelCall
    \/ CallTool
    \/ SecondModelCall
    \/ ForceTime
    \/ ForceJoke
    \/ DirectChat
    \/ ChatReturn

NegotiatorLiveSpec == NegotiatorInit /\ [][NegotiatorNext]_vars /\ WF_vars(ChatRun)

(***************************************************************************)
(* The tool servers (joke_mcp_server.py, time_mcp_server.py): a process    *)
(* that reads one JSON-RPC request per line of its standard input and      *)
(* prints one response per line.                                           *)
(***************************************************************************)
MaxLines == 2
IndexReach == 1

\* JSON values as json.loads returns them, tagged with their Python type
VInt(n) == [type |-> "int", int |-> n]
VStr(s) == [type |-> "str", str |-> s]
VNull == [type |-> "null"]
VArray == [type |-> "array"]
VObject(d) == [type |-> "object", fields |-> d]

\* v == s for a str literal s
IsStr(v, s) == v.type = "str" /\ v.str = s

\* a line of text: one that is no JSON text, or the JSON text of a value
NotJson == [json |-> FALSE]
json_dumps(value) == [json |-> TRUE, value |-> value]

\* the outcome of a call: a returned value or a raised exception
Returned(value) == [raised |-> FALSE, value |-> value]
Raises(exception) == [raised |-> TRUE, exception |-> exception]

\* json.loads(line.strip())
json_loads(line) == IF line.json THEN Returned(line.value) ELSE Raises("JSONDecodeError")

JOKES ==
    << [setup |-> "Why do programmers prefer dark mode?",
        punchline |-> "Because light attracts bugs!"],
       [setup |-> "Why did the developer go broke?",
        punchline |-> "Because he used up all his cache!"],
       [setup |-> "How many programmers does it take to change a light bulb?",
        punchline |-> "None. It's a hardware problem!"],
       [setup |-> "Why do Java developers wear glasses?",
        punchline |-> "Because they don't C#!"],
       [setup |-> "What's a programmer's favorite hangout place?",
        punchline |-> "Foo Bar!"],
       [setup |-> "Why did the Kubernetes pod go to therapy?",
        punchline |-> "It had too many container issues!"],
       [setup |-> "What do you call a developer who doesn't comment their code?",
        punchline |-> "A job security expert!"],
       [setup |-> "Why was the JavaScript developer sad?",
        punchline |-> "Because he didn't Node how to Express himself!"] >>

\* list[i]: counted from 0, a negative i counts from the end
ListIndex(list, i) ==
    IF 0 <= i /\ i < Len(list) THEN Returned(list[i + 1])
    ELSE IF 0 - Len(list) <= i /\ i < 0 THEN Returned(list[Len(list) + i + 1])
    ELSE Raises("IndexError")

\* datetime.now(), in seconds
Instants == {1705507845, 1705507846}

\* now.isoformat(), now.strftime(format)
isoformat(now) == [isoformat |-> now]
strftime(now, format) == [strftime |-> format, now |-> now]

ResultResponse(request_id, result) ==
    [jsonrpc |-> "2.0", id |-> request_id, result |-> result]
ErrorResponse(request_id, code, message) ==
    [jsonrpc |-> "2.0", id |-> request_id, error |-> [code |-> code, message |-> message]]

\* {"content": [{"type": "text", "text": json.dumps(result)}]}
TextContent(result) == [content |-> <<[type |-> "text", text |-> json_dumps(result)]>>]

\* faulty variant: an unknown tool is reported as an invalid argument
UnknownTool_InvalidParams(request_id, tool_name) ==
    Returned(ErrorResponse(request_id, -32602, <<"Unknown tool: ", tool_name>>))

\* the final else of tools/call: f"Unknown tool: {tool_name}"
UnknownTool(request_id, tool_name) ==
    Returned(ErrorResponse(request_id, -32601, <<"Unknown tool: ", tool_name>>))

\* the last return of handle_request: f"Unknown method: {method}"
UnknownMethod(request_id, method) ==
    Returned(ErrorResponse(request_id, -32601, <<"Unknown method: ", method>>))

\* faulty variant: the joke server lists a tool under a name it does not serve
ListedTools_Renamed(name) ==
    IF name = "joke" THEN <<"get_random_joke", "get_joke", "count_jokes">>
    ELSE <<"get_current_time", "get_timestamp">>

\* the names in the answer to tools/list
ListedTools(name) ==
    IF name = "joke" THEN <<"get_random_joke", "get_joke_by_index", "count_jokes">>
    ELSE <<"get_current_time", "get_timestamp">>

\* faulty variant: only the upper bound is checked
InRange_NoLowerBound(index) == index < Len(JOKES)

\* 0 <= index < len(JOKES)
InRange(index) == 0 <= index /\ index < Len(JOKES)

\* joke_mcp_server.py lines 111-134; comparing a str with 0 raises TypeError
get_joke_by_index(arguments, request_id) ==
    IF arguments.type # "object" THEN Raises("AttributeError")
    ELSE LET index == Get(arguments.fields, "index", VInt(0)) IN
         IF index.type # "int" THEN Raises("TypeError")
         ELSE IF InRange(index.int)
         THEN LET joke == ListIndex(JOKES, index.int) IN
              IF joke.raised THEN joke
              ELSE Returned(ResultResponse(request_id,
                       TextContent([setup |-> joke.value.setup,
                                    punchline |-> joke.value.punchline,
                                    index |-> index.int])))
         ELSE Returned(ErrorResponse(request_id, -32602,
                                     <<"Index must be 0-", Len(JOKES) - 1>>))

\* joke_mcp_server.handle_request; `choice` is what random.choice(JOKES) gives
joke_handle_request(request, choice) ==
    IF request.type # "object" THEN Raises("AttributeError")
    ELSE
    LET method == Get(request.fields, "method", VNull)
        params == Get(request.fields, "params", VObject(EmptyDict))
        request_id == Get(request.fields, "id", VInt(1))
    IN
    IF IsStr(method, "tools/list")
    THEN Returned(ResultResponse(request_id, [tools |-> ListedTools("joke")]))
    ELSE IF IsStr(method, "tools/call")
    THEN IF params.type # "object" THEN Raises("AttributeError")
         ELSE
         LET tool_name == Get(params.fields, "name", VNull)
             arguments == Get(params.fields, "arguments", VObject(EmptyDict))
         IN
         IF IsStr(tool_name, "get_random_joke")
         THEN Returned(ResultResponse(request_id,
                  TextContent([setup |-> choice.setup, punchline |-> choice.punchline])))
         ELSE IF IsStr(tool_name, "get_joke_by_index")
         THEN get_joke_by_index(arguments, request_id)
         ELSE IF IsStr(tool_name, "count_jokes")
         THEN Returned(ResultResponse(request_id, TextContent([total_jokes |-> Len(JOKES)])))
         ELSE UnknownTool(request_id, tool_name)
    ELSE UnknownMethod(request_id, method)

\* time_mcp_server.handle_request; `now` is what datetime.now() gives
time_handle_request(request, now) ==
    IF request.type # "object" THEN Raises("AttributeError")
    ELSE
    LET method == Get(request.fields, "method", VNull)
        params == Get(request.fields, "params", VObject(EmptyDict))
        request_id == Get(request.fields, "id", VInt(1))
    IN
    IF IsStr(method, "tools/list")
    THEN Returned(ResultResponse(request_id, [tools |-> ListedTools("time")]))
    ELSE IF IsStr(method, "tools/call")
    THEN IF params.type # "object" THEN Raises("AttributeError")
         ELSE
         LET tool_name == Get(params.fields, "name", VNull) IN
         IF IsStr(tool_name, "get_current_time")
         THEN Returned(ResultResponse(request_id,
                  TextContent([iso_format |-> isoformat(now),
                               human_readable |-> strftime(now, "%I:%M %p on %A, %B %d, %Y"),
                               time_only |-> strftime(now, "%I:%M %p"),
                               date_only |-> strftime(now, "%A, %B %d, %Y"),
                               day_of_week |-> strftime(now, "%A")])))
         ELSE IF IsStr(tool_name, "get_timestamp")
         THEN Returned(ResultResponse(request_id,
                  TextContent([unix_timestamp |-> now,
                               description |-> "Seconds since January 1, 1970 00:00:00 UTC"])))
         ELSE UnknownTool(request_id, tool_name)
    ELSE UnknownMethod(request_id, method)

\* what the environment gives a server while it handles one line: the joke
\* random.choice(JOKES) picks, the instant datetime.now() reads
Draws(name) == IF name = "joke" THEN Range(JOKES) ELSE Instants

\* the try body of main: json.loads, then handle_request
HandleLine(name, line, draw) ==
    LET request == json_loads(line) IN
    IF request.raised THEN request
    ELSE IF name = "joke" THEN joke_handle_request(request.value, draw)
    ELSE time_handle_request(request.value, draw)

\* faulty variant: `except json.JSONDecodeError`
Catches_DecodeErrorOnly(exception) == exception = "JSONDecodeError"

\* main: `except Exception as e`
Catches(exception) == TRUE

\* faulty variant: the loop ends after an error response
ProcAfterError_Stops == "exited"

\* main: the except clause neither breaks nor re-raises, the loop goes on
ProcAfterError == "running"

\* what one pass of the loop of main prints for `line`, and the state of the
\* process after it
LoopPass(name, line, draw) ==
    LET outcome == HandleLine(name, line, draw) IN
    IF ~outcome.raised
    THEN [printed |-> <<json_dumps(outcome.value)>>, proc |-> "running"]
    ELSE IF Catches(outcome.exception)
    THEN [printed |-> <<json_dumps(ErrorResponse(VInt(0), -32603, outcome.exception))>>,
          proc |-> ProcAfterError]
    ELSE [printed |-> <<>>, proc |-> "crashed"]

\* the passes the loop may make for `line`, over what the environment gives
LoopPasses(name, line) == {LoopPass(name, line, draw) : draw \in Draws(name)}

\* request lines
ListRequest ==
    json_dumps(VObject(("method" :> VStr("tools/list")) @@ ("id" :> VInt(7))))
CallRequest(tool, id, arguments) ==
    json_dumps(VObject(("method" :> VStr("tools/call")) @@ ("id" :> VInt(id)) @@
                       ("params" :> VObject(("name" :> VStr(tool)) @@
                                            ("arguments" :> VObject(arguments))))))

ServerNames == {"joke", "time"}
ToolNames == {"get_random_joke", "get_joke_by_index", "count_jokes",
              "get_current_time", "get_timestamp"}
Indices == (0 - IndexReach)..(Len(JOKES) - 1 + IndexReach)

\* the lines a client may write: valid requests, unknown methods and tools,
\* text that is no JSON, JSON that is no object, arguments of unexpected shape
Lines ==
    {NotJson, json_dumps(VArray), json_dumps(VNull), ListRequest,
     json_dumps(VObject(("method" :> VStr("tools/list")))),
     json_dumps(VObject(("method" :> VStr("ping")) @@ ("id" :> VInt(9)))),
     json_dumps(VObject(("method" :> VStr("tools/call")) @@ ("id" :> VInt(12)) @@
                        ("params" :> VNull))),
     CallRequest("get_joke_by_index", 11, ("index" :> VStr("3")))}
    \cup {CallRequest(tool, 8, EmptyDict) : tool \in ToolNames \cup {"no_such_tool"}}
    \cup {CallRequest("get_joke_by_index", 10, ("index" :> VInt(n))) : n \in Indices}

\* every line written so far
Sent == consumed \o stdin

ServerInit ==
    /\ SelInit
    /\ env_api_key = "key"
    /\ mcp_servers = {}
    /\ chat = ChatIdle
    /\ server_name \in ServerNames
    /\ proc = "running"
    /\ stdin = <<>>
    /\ consumed = <<>>
    /\ stdout = <<>>
    /\ MgrIdle
    /\ RunIdle
    /\ CoIdle
    /\ RaceIdle
    /\ RbIdle

\* a client writes a line to the process
Send(line) ==
    /\ proc = "running"
    /\ Len(Sent) < MaxLines
    /\ stdin' = Append(stdin, line)
    /\ UNCHANGED <<server_name, proc, consumed, stdout, selVars, chatVars, mgrVars, runVars, coVars, raceVars, rbVars>>

\* main, lines 162-177 (92-107): one pass of `for line in sys.stdin`
ServeLine ==
    /\ proc = "running"
    /\ stdin # <<>>
    /\ \E pass \in LoopPasses(server_name, Head(stdin)) :
         /\ stdout' = stdout \o pass.printed
         /\ proc' = pass.proc
    /\ consumed' = Append(consumed, Head(stdin))
    /\ stdin' = Tail(stdin)
    /\ UNCHANGED <<server_name, selVars, chatVars, mgrVars, runVars, coVars, raceVars, rbVars>>

\* the input is closed and everything was read: the loop and the process end
Eof ==
    /\ proc = "running"
    /\ stdin = <<>>
    /\ proc' = "exited"
    /\ UNCHANGED <<server_name, stdin, consumed, stdout, selVars, chatVars, mgrVars, runVars, coVars, raceVars, rbVars>>

ServerNext ==
    \/ \E line \in Lines : Send(line)
    \/ ServeLine
    \/ Eof

ServerSpec == ServerInit /\ [][ServerNext]_vars

\* a client that discovers the tools and then calls each of them once
ClientList ==
    /\ proc = "running"
    /\ Sent = <<>>
    /\ stdin' = <<ListRequest>>
    /\ UNCHANGED <<server_name, proc, consumed, stdout, selVars, chatVars, mgrVars, runVars, coVars, raceVars, rbVars>>

\* the tool named by a tools/call request line
CalledTool(line) == line.value.fields["params"].fields["name"].str

ClientCall ==
    /\ proc = "running"
    /\ stdout # <<>>
    /\ "result" \in DOMAIN stdout[1].value
    /\ \E tool \in Range(stdout[1].value.result.tools) :
         /\ \A i \in 2..Len(Sent) : CalledTool(Sent[i]) # tool
         /\ stdin' = Append(stdin, CallRequest(tool, 7 + Len(Sent), EmptyDict))
    /\ UNCHANGED <<server_name, proc, consumed, stdout, selVars, chatVars, mgrVars, runVars, coVars, raceVars, rbVars>>

RoundTripNext ==
    \/ ClientList
    \/ ClientCall
    \/ ServeLine
    \/ Eof

RoundTripSpec == ServerInit /\ [][RoundTripNext]_vars

(***************************************************************************)
(* The tool registry (mcp_client.py, class MCPManager).  One operation at  *)
(* a time; an operation advances from one `await` to the next, and what it *)
(* awaits (the subprocess transport, the session) returns, raises or stays *)
(* silent.                                                                 *)
(***************************************************************************)
MaxSessions == 2

ManagerNames == {"time", "joke"}
NamedOps == {"connect_server", "disconnect_server", "list_tools", "call_tool"}

\* ClientSession(stdio_transport[0], stdio_transport[1]): a session over a
\* subprocess that was launched; not initialized yet
NewSession(name) == [name |-> name, state |-> "new", closes |-> 0, broken |-> FALSE]

\* the sessions created for `name`: one per subprocess launched for it
LaunchedFor(name) == {i \in DOMAIN pool : pool[i].name = name}

\* del d[k]
Del(d, k) == [x \in DOMAIN d \ {k} |-> d[x]]

\* how the operation t ended
Ended(t, result) ==
    [op |-> t.op, name |-> t.name, result |-> result, all_tools |-> t.all_tools,
     failed |-> t.failed, before |-> t.before]

\* faulty variant: list_all_tools has no try around list_tools
CaughtInLoop_NoTry(op) == FALSE

\* lines 83-88: an exception of list_tools is caught inside list_all_tools
CaughtInLoop(op) == op = "list_all_tools"

\* lines 86-88: all_tools[server_name] = [], and the loop goes on
ListToolsFailed(t) ==
    [t EXCEPT !.all_tools = Put(@, t.name, {}), !.failed = @ \cup {t.name}, !.pc = "loop"]

\* an exception raised at an await of t: caught by list_all_tools, or ending
\* the operation
Throw(t) ==
    IF CaughtInLoop(t.op)
    THEN task' = ListToolsFailed(t) /\ done' = done
    ELSE task' = NoTask /\ done' = Ended(t, "raised")

\* the operation t returns
Finish(t) == task' = NoTask /\ done' = Ended(t, "returned")

\* the body of a loop that called disconnect_server or list_tools goes on, or
\* the operation that was called on its own returns
Resume(t) ==
    IF t.op = "cleanup" THEN task' = [t EXCEPT !.pc = "cleanup_loop"] /\ done' = done
    ELSE IF t.op = "list_all_tools" THEN task' = [t EXCEPT !.pc = "loop"] /\ done' = done
    ELSE Finish(t)

ManagerInit ==
    /\ SelInit
    /\ env_api_key = "key"
    /\ mcp_servers = {}
    /\ chat = ChatIdle
    /\ SrvIdle
    /\ MgrIdle
    /\ RunIdle
    /\ CoIdle
    /\ RaceIdle
    /\ RbIdle

\* register_server, lines 21-28
register_server(name) ==
    /\ task.pc = "idle"
    /\ servers' = servers \cup {name}
    /\ UNCHANGED <<sessions, pool, task, done, selVars, chatVars, srvVars, runVars, coVars, raceVars, rbVars>>

\* an operation is called
Begin(op, name) ==
    /\ task.pc = "idle"
    /\ LET t == [NoTask EXCEPT !.op = op, !.name = name,
                               !.before = [servers |-> servers, sessions |-> sessions,
                                           pool |-> pool]]
       IN
       task' = IF op = "connect_server" THEN [t EXCEPT !.pc = "connect"]
               ELSE IF op = "disconnect_server" THEN [t EXCEPT !.pc = "disconnect"]
               ELSE IF op \in {"list_tools", "call_tool"} THEN [t EXCEPT !.pc = "lookup"]
               ELSE IF op = "list_all_tools"
               THEN [t EXCEPT !.pc = "loop", !.queue = servers]
               ELSE [t EXCEPT !.pc = "cleanup_loop", !.queue = DOMAIN sessions]
    /\ UNCHANGED <<servers, sessions, pool, done, selVars, chatVars, srvVars, runVars, coVars, raceVars, rbVars>>

\* connect_server, lines 32-40
ConnectEntry ==
    /\ task.pc = "connect"
    /\ IF task.name \notin servers
       THEN Throw(task)
       ELSE task' = [task EXCEPT !.pc = "stdio"] /\ done' = done
    /\ UNCHANGED <<servers, sessions, pool, selVars, chatVars, srvVars, runVars, coVars, raceVars, rbVars>>

\* line 43-44: await stdio_client(server_params) returns, the subprocess is
\* launched and the session object is made
StdioReturns ==
    /\ task.pc = "stdio"
    /\ ~task.silent
    /\ Len(pool) < MaxSessions
    /\ pool' = Append(pool, NewSession(task.name))
    /\ task' = [task EXCEPT !.pc = "initialize", !.session = Len(pool) + 1]
    /\ UNCHANGED <<servers, sessions, done, selVars, chatVars, srvVars, runVars, coVars, raceVars, rbVars>>

\* lines 43, 50-52: the subprocess cannot start
StdioRaises ==
    /\ task.pc = "stdio"
    /\ ~task.silent
    /\ Throw(task)
    /\ UNCHANGED <<servers, sessions, pool, selVars, chatVars, srvVars, runVars, coVars, raceVars, rbVars>>

\* lines 45-49: await session.initialize() returns, the session is cached
InitializeReturns ==
    /\ task.pc = "initialize"
    /\ ~task.silent
    /\ pool' = [pool EXCEPT ![task.session].state = "live"]
    /\ sessions' = Put(sessions, task.name, task.session)
    /\ IF task.op = "connect_server"
       THEN Finish(task)
       ELSE task' = [task EXCEPT !.pc = "use"] /\ done' = done
    /\ UNCHANGED <<servers, selVars, chatVars, srvVars, runVars, coVars, raceVars, rbVars>>

\* lines 45, 50-52: the handshake fails
InitializeRaises ==
    /\ task.pc = "initialize"
    /\ ~task.silent
    /\ Throw(task)
    /\ UNCHANGED <<servers, sessions, pool, selVars, chatVars, srvVars, runVars, coVars, raceVars, rbVars>>

\* the transport never answers: neither await of connect_server has a timeout
TransportSilent ==
    /\ task.pc \in {"stdio", "initialize"}
    /\ ~task.silent
    /\ task' = [task EXCEPT !.silent = TRUE]
    /\ UNCHANGED <<servers, sessions, pool, done, selVars, chatVars, srvVars, runVars, coVars, raceVars, rbVars>>

\* lines 63-64, 72-73: if server_name not in self.sessions: connect_server
Lookup ==
    /\ task.pc = "lookup"
    /\ task' = IF task.name \in DOMAIN sessions
               THEN [task EXCEPT !.pc = "use"]
               ELSE [task EXCEPT !.pc = "connect"]
    /\ UNCHANGED <<servers, sessions, pool, done, selVars, chatVars, srvVars, runVars, coVars, raceVars, rbVars>>

\* lines 66-68, 75-77: the cached session answers
UseReturns ==
    /\ task.pc = "use"
    /\ IF task.op = "list_all_tools"
       THEN /\ task' = [task EXCEPT !.all_tools = Put(@, task.name, ToolsOf(task.name)),
                                    !.pc = "loop"]
            /\ done' = done
       ELSE Finish(task)
    /\ UNCHANGED <<servers, sessions, pool, selVars, chatVars, srvVars, runVars, coVars, raceVars, rbVars>>

\* lines 67, 76: the call on the cached session raises, the subprocess having
\* crashed or printed something that is no JSON
UseRaises ==
    /\ task.pc = "use"
    /\ pool' = [pool EXCEPT ![sessions[task.name]].broken = TRUE]
    /\ Throw(task)
    /\ UNCHANGED <<servers, sessions, selVars, chatVars, srvVars, runVars, coVars, raceVars, rbVars>>

\* list_all_tools, lines 81-89: the next server, or return all_tools
Loop ==
    /\ task.pc = "loop"
    /\ IF task.queue = {}
       THEN Finish(task)
       ELSE /\ \E name \in task.queue :
                 task' = [task EXCEPT !.name = name, !.queue = @ \ {name}, !.pc = "lookup"]
            /\ done' = done
    /\ UNCHANGED <<servers, sessions, pool, selVars, chatVars, srvVars, runVars, coVars, raceVars, rbVars>>

\* cleanup, lines 93-94: the next name of list(self.sessions.keys()), or return
CleanupLoop ==
    /\ task.pc = "cleanup_loop"
    /\ IF task.queue = {}
       THEN Finish(task)
       ELSE /\ \E name \in task.queue :
                 task' = [task EXCEPT !.name = name, !.queue = @ \ {name}, !.pc = "disconnect"]
            /\ done' = done
    /\ UNCHANGED <<servers, sessions, pool, selVars, chatVars, srvVars, runVars, coVars, raceVars, rbVars>>

\* disconnect_server, line 56: if name in self.sessions
Disconnect ==
    /\ task.pc = "disconnect"
    /\ IF task.name \in DOMAIN sessions
       THEN task' = [task EXCEPT !.pc = "close"] /\ done' = done
       ELSE Resume(task)
    /\ UNCHANGED <<servers, sessions, pool, selVars, chatVars, srvVars, runVars, coVars, raceVars, rbVars>>

\* lines 57-58: await close() returns, del self.sessions[name]
CloseReturns ==
    /\ task.pc = "close"
    /\ pool' = [pool EXCEPT ![sessions[task.name]].state = "closed",
                            ![sessions[task.name]].closes = @ + 1]
    /\ sessions' = Del(sessions, task.name)
    /\ Resume(task)
    /\ UNCHANGED <<servers, selVars, chatVars, srvVars, runVars, coVars, raceVars, rbVars>>

\* line 57: close() raises, the exception leaves disconnect_server and cleanup
CloseRaises ==
    /\ task.pc = "close"
    /\ task' = NoTask
    /\ done' = Ended(task, "raised")
    /\ UNCHANGED <<servers, sessions, pool, selVars, chatVars, srvVars, runVars, coVars, raceVars, rbVars>>

\* the steps of an operation under way
ManagerRun ==
    \/ ConnectEntry
    \/ StdioReturns
    \/ StdioRaises
    \/ InitializeReturns
    \/ InitializeRaises
    \/ Lookup
    \/ UseReturns
    \/ UseRaises
    \/ Loop
    \/ CleanupLoop
    \/ Disconnect
    \/ CloseReturns
    \/ CloseRaises

ManagerNext ==
    \/ \E name \in ManagerNames : register_server(name)
    \/ \E op \in NamedOps, name \in ManagerNames : Begin(op, name)
    \/ \E op \in {"list_all_tools", "cleanup"} : Begin(op, "none")
    \/ TransportSilent
    \/ ManagerRun

ManagerSpec == ManagerInit /\ [][ManagerNext]_vars

\* every await that is answered is resumed
ManagerLiveSpec == ManagerInit /\ [][ManagerNext]_vars /\ WF_vars(ManagerRun)

(***************************************************************************)
(* The process executors: run_kubectl_command (src/main.py),               *)
(* run_argo_command (src/argo.py) and _run_argocd_command                  *)
(* (src/tools/argo.py).  The caller is blocked from the launch of the      *)
(* subprocess until the call returns.  What the subprocess does is the     *)
(* environment's choice: it exits with status 0, exits with another        *)
(* status, or never exits.                                                 *)
(***************************************************************************)
MaxCommands == 2

Executors == {"run_kubectl_command", "run_argo_command", "_run_argocd_command"}

Fates == {"exits_0", "exits_nonzero", "never_exits"}

\* the commands each executor is handed
ExecutorCommands(executor) ==
    IF executor = "run_kubectl_command"
    THEN {NamespaceCommand("get", "pods", ns) : ns \in ClusterNamespaces}
    ELSE IF executor = "run_argo_command"
    THEN {<<"argocd", "app", "list">>}
    ELSE {<<"argocd", "app", "list", "-o", "json">>, <<"argocd", "app", "sync", "app">>}

\* subprocess.run(..., timeout=timeout) against subprocess.check_output(...)
HasTimeout(executor) == executor = "_run_argocd_command"

\* subprocess.run(cmd) with a list looks the program up itself; check_output(...,
\* shell=True) hands the line to the shell, which is always there
RunsProgramDirectly(executor) == executor = "_run_argocd_command"

Relayed(kind, command) == [kind |-> kind, command |-> command]

Child(executor, command, fate) ==
    [executor |-> executor, command |-> command, fate |-> fate, state |-> "running"]

\* the call: the subprocess is launched and the caller waits for it
Execute(executor, command, fate) ==
    /\ run.pc # "waiting"
    /\ Len(children) < MaxCommands
    /\ children' = Append(children, Child(executor, command, fate))
    /\ run' = [pc |-> "waiting", executor |-> executor, command |-> command,
               child |-> Len(children) + 1, relayed |-> NoRelay]
    /\ UNCHANGED <<selVars, chatVars, srvVars, mgrVars, coVars, raceVars, rbVars>>

\* except FileNotFoundError: the program is not installed, nothing is launched
ProgramMissing(executor, command) ==
    /\ run.pc # "waiting"
    /\ RunsProgramDirectly(executor)
    /\ run' = [pc |-> "returned", executor |-> executor, command |-> command,
               child |-> 0, relayed |-> Relayed("not_found", command)]
    /\ UNCHANGED <<children, selVars, chatVars, srvVars, mgrVars, coVars, raceVars, rbVars>>

\* the subprocess exits: the output is relayed, or the error detail of
\* CalledProcessError
ChildExits ==
    /\ run.pc = "waiting"
    /\ children[run.child].state = "running"
    /\ children[run.child].fate # "never_exits"
    /\ children' = [children EXCEPT ![run.child].state = "exited"]
    /\ run' = [run EXCEPT !.pc = "returned",
                          !.relayed = Relayed(IF children[run.child].fate = "exits_0"
                                              THEN "output" ELSE "error", run.command)]
    /\ UNCHANGED <<selVars, chatVars, srvVars, mgrVars, coVars, raceVars, rbVars>>

\* except subprocess.TimeoutExpired: subprocess.run has killed the subprocess
TimeoutExpires ==
    /\ run.pc = "waiting"
    /\ HasTimeout(run.executor)
    /\ children[run.child].state = "running"
    /\ children' = [children EXCEPT ![run.child].state = "killed"]
    /\ run' = [run EXCEPT !.pc = "returned", !.relayed = Relayed("timeout", run.command)]
    /\ UNCHANGED <<selVars, chatVars, srvVars, mgrVars, coVars, raceVars, rbVars>>

ExecutorInit ==
    /\ SelInit
    /\ env_api_key = "key"
    /\ mcp_servers = {}
    /\ chat = ChatIdle
    /\ SrvIdle
    /\ MgrIdle
    /\ RunIdle
    /\ CoIdle
    /\ RaceIdle
    /\ RbIdle

\* what happens to a call under way without any further input
ExecutorRun ==
    \/ ChildExits
    \/ TimeoutExpires

ExecutorNext ==
    \/ \E executor \in Executors : \E command \in ExecutorCommands(executor) :
         \E fate \in Fates : Execute(executor, command, fate)
    \/ \E executor \in Executors : \E command \in ExecutorCommands(executor) :
         ProgramMissing(executor, command)
    \/ ChildExits
    \/ TimeoutExpires

ExecutorSpec == ExecutorInit /\ [][ExecutorNext]_vars

\* a subprocess that is going to exit does exit, and a timeout that is set expires
ExecutorLiveSpec == ExecutorInit /\ [][ExecutorNext]_vars /\ WF_vars(ExecutorRun)

(***************************************************************************)
(* list_tools and call_tool of MCPManager called from several coroutines   *)
(* of one event loop.  A coroutine runs alone from one await to the next;  *)
(* at an await (stdio_client, session.initialize, session.list_tools,      *)
(* session.call_tool) another coroutine may run.                           *)
(***************************************************************************)
CallerOps == {"list_tools", "call_tool"}

\* the call is made; nothing of it has run yet
CoBegin(t, op, name) ==
    /\ callers[t].pc = "idle"
    /\ callers' = [callers EXCEPT ![t] = [NoCall EXCEPT !.pc = "lookup", !.op = op,
                                                         !.name = name]]
    /\ UNCHANGED <<selVars, chatVars, srvVars, mgrVars, runVars, raceVars, rbVars>>

\* lines 63-64, 72-73, 32-43: `if server_name not in self.sessions`, then
\* connect_server up to its first await
CoLookup(t) ==
    /\ callers[t].pc = "lookup"
    /\ callers' = [callers EXCEPT ![t].pc =
                      IF callers[t].name \in DOMAIN sessions THEN "use"
                      ELSE IF callers[t].name \notin servers THEN "idle"
                      ELSE "stdio"]
    /\ UNCHANGED <<selVars, chatVars, srvVars, mgrVars, runVars, raceVars, rbVars>>

\* lines 43-45: stdio_client returns, the subprocess runs, the session is made
CoStdioReturns(t) ==
    /\ callers[t].pc = "stdio"
    /\ Len(pool) < MaxSessions
    /\ pool' = Append(pool, NewSession(callers[t].name))
    /\ callers' = [callers EXCEPT ![t].pc = "initialize", ![t].session = Len(pool) + 1]
    /\ UNCHANGED <<servers, sessions, task, done, selVars, chatVars, srvVars, runVars, raceVars, rbVars>>

\* lines 45-49: initialize returns, the session is cached; back in the caller
\* the cache is read again (lines 66, 75)
CoInitializeReturns(t) ==
    /\ callers[t].pc = "initialize"
    /\ pool' = [pool EXCEPT ![callers[t].session].state = "live"]
    /\ sessions' = Put(sessions, callers[t].name, callers[t].session)
    /\ callers' = [callers EXCEPT ![t].pc = "use", ![t].session = 0]
    /\ UNCHANGED <<servers, task, done, selVars, chatVars, srvVars, runVars, raceVars, rbVars>>

\* lines 50-52: stdio_client or initialize raises, the call ends
CoConnectRaises(t) ==
    /\ callers[t].pc \in {"stdio", "initialize"}
    /\ callers' = [callers EXCEPT ![t] = NoCall]
    /\ UNCHANGED <<selVars, chatVars, srvVars, mgrVars, runVars, raceVars, rbVars>>

\* lines 66-68, 75-77: the cached session answers or raises, the call ends
CoUseEnds(t) ==
    /\ callers[t].pc = "use"
    /\ callers' = [callers EXCEPT ![t] = NoCall]
    /\ UNCHANGED <<selVars, chatVars, srvVars, mgrVars, runVars, raceVars, rbVars>>

\* both servers are registered, none is connected
ConcurrentInit ==
    /\ SelInit
    /\ env_api_key = "key"
    /\ mcp_servers = {}
    /\ chat = ChatIdle
    /\ SrvIdle
    /\ servers = ManagerNames
    /\ sessions = EmptyDict
    /\ pool = <<>>
    /\ task = NoTask
    /\ done = NoneDone
    /\ RunIdle
    /\ CoIdle
    /\ RaceIdle
    /\ RbIdle

ConcurrentNext ==
    \E t \in Callers :
        \/ \E op \in CallerOps : \E name \in ManagerNames : CoBegin(t, op, name)
        \/ CoLookup(t)
        \/ CoStdioReturns(t)
        \/ CoInitializeReturns(t)
        \/ CoConnectRaises(t)
        \/ CoUseEnds(t)

ConcurrentSpec == ConcurrentInit /\ [][ConcurrentNext]_vars

(***************************************************************************)
(* Handlers of one conversation running in two threads of the web server:  *)
(* handle_kubectl_namespace_select runs statement by statement while a     *)
(* command or sub-command selection of the same conversation is handled    *)
(* in between.  `racing.held` collects what the entry of the conversation  *)
(* held at each moment since the namespace selection arrived, and          *)
(* `racing.writes` counts the selections handled in between.               *)
(***************************************************************************)
MaxRacingWrites == 2

Triple(entry) ==
    <<Get(entry, "command", NoneVal), Get(entry, "sub_command", NoneVal),
      Get(entry, "namespace", NoneVal)>>

\* the flows that have reached the namespace menu
PairEntries ==
    UNION {{("command" :> cmd) @@ ("sub_command" :> sub) : sub \in SubCommandOptions(cmd)}
           : cmd \in Range(available_commands)}

Held(store, c) == racing.held \cup {Triple(Get(store, c, EmptyDict))}

\* the other thread gets to run while the namespace selection is under way
InBetween ==
    /\ racing.pc \notin {"idle", "done"}
    /\ racing.writes < MaxRacingWrites

\* the request arrives: selected_namespace is read from the payload (line 31)
RaceBegin(c, v) ==
    /\ racing.pc = "idle"
    /\ v \in slack_menus[c]["kubectl_namespace_select"]
    /\ racing' = [NoRace EXCEPT !.pc = "write", !.channel = c, !.value = v,
                                !.held = {Triple(Entry(c))}]
    /\ UNCHANGED <<selVars, chatVars, srvVars, mgrVars, runVars, coVars, rbVars>>

\* lines 32-33: the namespace is written into the entry, if there is one
RaceWrite ==
    /\ racing.pc = "write"
    /\ selected_actions' = NamespaceSelectStore(racing.channel, racing.value)
    /\ racing' = [racing EXCEPT !.pc = "read_command",
                                !.held = Held(selected_actions', racing.channel)]
    /\ UNCHANGED <<slack_menus, last, chatVars, srvVars, mgrVars, runVars, coVars, rbVars>>

\* line 35: selected_command = ...get(channel_id, {}).get("command")
RaceReadCommand ==
    /\ racing.pc = "read_command"
    /\ racing' = [racing EXCEPT !.pc = "read_sub_command",
                     !.selected_command = Get(Entry(racing.channel), "command", NoneVal)]
    /\ UNCHANGED <<selVars, chatVars, srvVars, mgrVars, runVars, coVars, rbVars>>

\* line 36: selected_sub_command = ...get(channel_id, {}).get("sub_command")
RaceReadSubCommand ==
    /\ racing.pc = "read_sub_command"
    /\ racing' = [racing EXCEPT !.pc = "branch",
                     !.selected_sub_command = Get(Entry(racing.channel), "sub_command", NoneVal)]
    /\ UNCHANGED <<selVars, chatVars, srvVars, mgrVars, runVars, coVars, rbVars>>

\* lines 38-48: the branch on the two locals and its effect
RaceBranch ==
    /\ racing.pc = "branch"
    /\ LET c == racing.channel
           v == racing.value
           branch == NamespaceBranch(racing.selected_command, racing.selected_sub_command)
       IN
       CASE branch = "pod_menu" ->
              \E pods \in get_available_pods(v) :
                LET menu == MenuMsg("kubectl_pod_select", pods) IN
                /\ slack_menus' = PostMenu(c, "kubectl_pod_select", menu.options)
                /\ last' = Handled("kubectl_namespace_select", c, v, <<>>, <<menu>>)
         [] branch = "deployment_menu" ->
              \E deployments \in get_deployments(v) :
                LET menu == MenuMsg("kubectl_deployment_select", deployments) IN
                /\ slack_menus' = PostMenu(c, "kubectl_deployment_select", menu.options)
                /\ last' = Handled("kubectl_namespace_select", c, v, <<>>, <<menu>>)
         [] OTHER ->
              \E outcome \in KubectlOutcomes :
                LET command == NamespaceCommand(racing.selected_command,
                                                racing.selected_sub_command, v) IN
                /\ last' = Handled("kubectl_namespace_select", c, v, <<command>>,
                                   <<run_kubectl_command(command, outcome)>>)
                /\ UNCHANGED slack_menus
    /\ racing' = [racing EXCEPT !.pc = "done"]
    /\ UNCHANGED <<selected_actions, chatVars, srvVars, mgrVars, runVars, coVars, rbVars>>

\* handle_kubectl_command_select in the other thread (lines 14-18)
RaceCommandSelect(c, v) ==
    LET menu == MenuMsg("kubectl_sub_command_select", SubCommandOptions(v)) IN
    /\ InBetween
    /\ v \in slack_menus[c]["kubectl_command_select"]
    /\ selected_actions' = CommandSelectStore(c, v)
    /\ slack_menus' = PostMenu(c, "kubectl_sub_command_select", menu.options)
    /\ last' = Handled("kubectl_command_select", c, v, <<>>, <<menu>>)
    /\ racing' = [racing EXCEPT !.held = Held(selected_actions', c), !.writes = @ + 1]
    /\ UNCHANGED <<chatVars, srvVars, mgrVars, runVars, coVars, rbVars>>

\* handle_kubectl_sub_command_select in the other thread (lines 21-27)
RaceSubCommandSelect(c, v) ==
    /\ InBetween
    /\ v \in slack_menus[c]["kubectl_sub_command_select"]
    /\ selected_actions' = SubCommandSelectStore(c, v)
    /\ \E namespaces \in get_available_namespaces :
        LET menu == MenuMsg("kubectl_namespace_select", namespaces) IN
        /\ slack_menus' = PostMenu(c, "kubectl_namespace_select", menu.options)
        /\ last' = Handled("kubectl_sub_command_select", c, v, <<>>, <<menu>>)
    /\ racing' = [racing EXCEPT !.held = Held(selected_actions', c), !.writes = @ + 1]
    /\ UNCHANGED <<chatVars, srvVars, mgrVars, runVars, coVars, rbVars>>

\* a conversation that has answered the command and the sub-command menu
RaceInit ==
    /\ \E e \in PairEntries :
        /\ selected_actions = ("C1" :> e)
        /\ slack_menus = ("C1" :> FlowMenus(e))
    /\ last = NoEvent
    /\ env_api_key = "key"
    /\ mcp_servers = {}
    /\ chat = ChatIdle
    /\ SrvIdle
    /\ MgrIdle
    /\ RunIdle
    /\ CoIdle
    /\ RaceIdle
    /\ RbIdle

RaceNext ==
    \/ \E v \in ClusterNamespaces : RaceBegin("C1", v)
    \/ RaceWrite
    \/ RaceReadCommand
    \/ RaceReadSubCommand
    \/ RaceBranch
    \/ \E v \in Range(available_commands) : RaceCommandSelect("C1", v)
    \/ \E v \in slack_menus["C1"]["kubectl_sub_command_select"] :
         RaceSubCommandSelect("C1", v)

RaceSpec == RaceInit /\ [][RaceNext]_vars

(***************************************************************************)
(* The ArgoCD rollback tool (src/tools/argo.py): execute_rollback,         *)
(* prepare_rollback and the two queries it makes.  Every argocd command    *)
(* goes through _run_argocd_command, which gives success with the output   *)
(* of the command or failure with an error text.                           *)
(***************************************************************************)
MaxRevision == 2

AppNames == {"my-app", "other-app"}

\* the ids a history may hold, and the ids a rollback may ask for
HistoryIds == 1..MaxRevision
RequestedIds == 1..(MaxRevision + 1)

\* what _run_argocd_command returns
Succeeded(output) == [success |-> TRUE, output |-> output]
Failed(error) == [success |-> FALSE, error |-> error]

ArgoErrors == {"exit status 1", "Command timed out after 30 seconds",
               "ArgoCD CLI not found. Please install 'argocd' CLI tool."}

\* the output of a command: nothing, text that is no JSON, or JSON
EmptyOutput == [kind |-> "empty"]
Garbage == [kind |-> "garbage"]
StatusJson == [kind |-> "json", current_revision |-> "abc123"]
HistoryJson(ids) == [kind |-> "json", ids |-> ids]

StatusOutcomes ==
    {Failed(e) : e \in ArgoErrors} \cup {Succeeded(o) : o \in {EmptyOutput, Garbage, StatusJson}}

HistoryOutcomes ==
    {Failed(e) : e \in ArgoErrors}
    \cup {Succeeded(o) : o \in {EmptyOutput, Garbage}}
    \cup {Succeeded(HistoryJson(ids)) : ids \in SUBSET HistoryIds}

RollbackOutcomes == {Failed(e) : e \in ArgoErrors} \cup {Succeeded([kind |-> "text"])}

StatusCommand(app_name) == <<"argocd", "app", "get", app_name, "-o", "json">>
HistoryCommand(app_name) == <<"argocd", "app", "history", app_name, "-o", "json">>
RollbackCommand(app_name, revision_id) == <<"argocd", "app", "rollback", app_name, revision_id>>

\* get_application_status on the outcome of its command
get_application_status(app_name, outcome) ==
    IF ~outcome.success
    THEN [error |-> <<"Failed to get application status: ", outcome.error>>, name |-> app_name]
    ELSE IF outcome.output.kind # "json"
    THEN [error |-> <<"Failed to parse application status: ", "JSONDecodeError">>,
          name |-> app_name]
    ELSE [name |-> app_name, current_revision |-> outcome.output.current_revision]

\* get_application_revisions on the outcome of its command
get_application_revisions(app_name, outcome) ==
    IF ~outcome.success
    THEN [error |-> <<"Failed to get application revisions: ", outcome.error>>,
          name |-> app_name, revisions |-> {}]
    ELSE IF outcome.output.kind = "empty"
    THEN [name |-> app_name, revisions |-> {}, message |-> "No revision history found"]
    ELSE IF outcome.output.kind # "json"
    THEN [error |-> <<"Failed to parse revision history: ", "JSONDecodeError">>,
          name |-> app_name, revisions |-> {}]
    ELSE [name |-> app_name, revisions |-> outcome.output.ids]

\* faulty variant: the rollback is prepared only, never asked to be confirmed
NeedsPreparation_Never(confirmed) == FALSE

\* execute_rollback, line 325: `if not confirmed`
NeedsPreparation(confirmed) == ~confirmed

\* prepare_rollback, lines 272-302, once both queries are in
prepare_rollback(app_name, revision_id, revisions, current_status) ==
    IF revision_id \notin revisions.revisions
    THEN [error |-> <<"Revision not found", revision_id, app_name>>,
          app_name |-> app_name, revision_id |-> revision_id]
    ELSE [app_name |-> app_name, revision_id |-> revision_id,
          target_revision |-> revision_id,
          current_revision |-> current_status.current_revision,
          confirmation_required |-> TRUE]

\* execute_rollback(app_name, revision_id, confirmed) is called
RollbackCall(app_name, revision_id, confirmed) ==
    /\ rb.pc \in {"idle", "done"}
    /\ rb' = [NoRollback EXCEPT !.app_name = app_name, !.revision_id = revision_id,
                                !.confirmed = confirmed,
                                !.pc = IF NeedsPreparation(confirmed) THEN "status"
                                       ELSE "rollback"]
    /\ UNCHANGED <<selVars, chatVars, srvVars, mgrVars, runVars, coVars, raceVars>>

\* prepare_rollback, lines 264-267: the status query
StatusQuery(outcome) ==
    /\ rb.pc = "status"
    /\ LET current_status == get_application_status(rb.app_name, outcome)
           asked == [rb EXCEPT !.issued = Append(@, StatusCommand(rb.app_name)),
                               !.status = outcome]
       IN
       rb' = IF "error" \in DOMAIN current_status
             THEN [asked EXCEPT !.pc = "done", !.result = current_status]
             ELSE [asked EXCEPT !.pc = "history"]
    /\ UNCHANGED <<selVars, chatVars, srvVars, mgrVars, runVars, coVars, raceVars>>

\* prepare_rollback, lines 269-302: the history query and the answer
HistoryQuery(outcome) ==
    /\ rb.pc = "history"
    /\ LET revisions == get_application_revisions(rb.app_name, outcome)
           current_status == get_application_status(rb.app_name, rb.status)
           asked == [rb EXCEPT !.issued = Append(@, HistoryCommand(rb.app_name)),
                               !.history = outcome, !.pc = "done"]
       IN
       rb' = IF "error" \in DOMAIN revisions
             THEN [asked EXCEPT !.result = revisions]
             ELSE [asked EXCEPT !.result = prepare_rollback(rb.app_name, rb.revision_id,
                                                            revisions, current_status)]
    /\ UNCHANGED <<selVars, chatVars, srvVars, mgrVars, runVars, coVars, raceVars>>

\* execute_rollback, lines 328-350: the rollback command
RollbackIssued(outcome) ==
    /\ rb.pc = "rollback"
    /\ LET asked == [rb EXCEPT !.issued = Append(@, RollbackCommand(rb.app_name,
                                                                    rb.revision_id)),
                               !.pc = "done"]
       IN
       rb' = IF ~outcome.success
             THEN [asked EXCEPT !.result =
                      [error |-> <<"Failed to execute rollback: ", outcome.error>>,
                       app_name |-> rb.app_name, revision_id |-> rb.revision_id,
                       success |-> FALSE]]
             ELSE [asked EXCEPT !.result =
                      [app_name |-> rb.app_name, revision_id |-> rb.revision_id,
                       success |-> TRUE, message |-> outcome.output]]
    /\ UNCHANGED <<selVars, chatVars, srvVars, mgrVars, runVars, coVars, raceVars>>

RollbackInit ==
    /\ SelInit
    /\ env_api_key = "key"
    /\ mcp_servers = {}
    /\ chat = ChatIdle
    /\ SrvIdle
    /\ MgrIdle
    /\ RunIdle
    /\ CoIdle
    /\ RaceIdle
    /\ RbIdle

RollbackNext ==
    \/ \E app_name \in AppNames : \E revision_id \in RequestedIds :
         \E confirmed \in BOOLEAN : RollbackCall(app_name, revision_id, confirmed)
    \/ \E outcome \in StatusOutcomes : StatusQuery(outcome)
    \/ \E outcome \in HistoryOutcomes : HistoryQuery(outcome)
    \/ \E outcome \in RollbackOutcomes : RollbackIssued(outcome)

RollbackSpec == RollbackInit /\ [][RollbackNext]_vars

(***************************************************************************)
(* Properties of the selection handlers.  `last` is the event handled last *)
(* and the store of the current state is the store that handler left.      *)
(***************************************************************************)
LastEntry == Entry(last.channel)
LastEntryBefore == Get(last.before, last.channel, EmptyDict)
LastCommand == Get(LastEntry, "command", NoneVal)
LastSubCommand == Get(LastEntry, "sub_command", NoneVal)
LastNamespace == Get(LastEntry, "namespace", NoneVal)

PodListPairs == {<<"describe", "pods">>, <<"logs", "pods">>}
DeploymentListPairs == {<<"rollout restart", "deployments">>}
ResolvingActions == {"kubectl_namespace_select", "kubectl_pod_select",
                     "kubectl_deployment_select"}

\* C1: a namespace selection for (describe, pods), (logs, pods) or
\* (rollout restart, deployments) posts the matching list menu (pod menu or
\* deployment menu) and hands no command to the executor.
C1_NeedListPostsMenu ==
    last.action_id = "kubectl_namespace_select" =>
        /\ <<LastCommand, LastSubCommand>> \in PodListPairs =>
                last.executed = <<>> /\ PostedMenu("kubectl_pod_select")
        /\ <<LastCommand, LastSubCommand>> \in DeploymentListPairs =>
                last.executed = <<>> /\ PostedMenu("kubectl_deployment_select")

C1_Witness ==
    /\ last.action_id = "kubectl_namespace_select"
    /\ <<LastCommand, LastSubCommand>> = <<"logs", "pods">>
    /\ PostedMenu("kubectl_pod_select")

\* C2: after a command selection the entry of the conversation holds only the
\* newly chosen command, whatever sub_command and namespace it held before.
C2_CommandSelectResets ==
    last.action_id = "kubectl_command_select" =>
        /\ last.channel \in DOMAIN selected_actions
        /\ DOMAIN LastEntry = {"command"}
        /\ LastEntry["command"] = last.value

C2_Witness ==
    /\ last.action_id = "kubectl_command_select"
    /\ {"sub_command", "namespace"} \subseteq DOMAIN LastEntryBefore
    /\ LastEntryBefore["command"] # last.value
    /\ DOMAIN LastEntry = {"command"}

\* C3: every command handed to the executor was built from an entry in which
\* command, sub_command and namespace were all set.
C3_ExecutedOnlyWhenComplete ==
    last.executed # <<>> =>
        {"command", "sub_command", "namespace"} \subseteq DOMAIN LastEntry

\* C4: a pod or deployment selection for a conversation whose namespace is
\* unset (no entry, or an entry without a namespace) executes nothing, posts
\* "Namespace not selected. Please start over." and leaves the store unchanged.
C4_NamespaceUnsetRefused ==
    (/\ last.action_id \in {"kubectl_pod_select", "kubectl_deployment_select"}
     /\ "namespace" \notin DOMAIN LastEntryBefore) =>
        /\ last.executed = <<>>
        /\ last.posted = <<TextMsg("Namespace not selected. Please start over.")>>
        /\ selected_actions = last.before

C4_Witness ==
    /\ last.action_id = "kubectl_pod_select"
    /\ last.channel \notin DOMAIN last.before
    /\ last.posted = <<TextMsg("Namespace not selected. Please start over.")>>

\* C5: a pod selection with command logs dispatches `kubectl logs <pod> -n
\* <namespace>` with no "pods" or "pod" token, and with command describe it
\* dispatches `kubectl describe pod <pod> -n <namespace>`.
C5_PodCommandShape ==
    (/\ last.action_id = "kubectl_pod_select"
     /\ "namespace" \in DOMAIN LastEntry) =>
        /\ LastCommand = "logs" =>
              last.executed = << <<"kubectl", "logs", last.value, "-n", LastNamespace>> >>
        /\ LastCommand = "describe" =>
              last.executed =
                << <<"kubectl", "describe", "pod", last.value, "-n", LastNamespace>> >>

C5_Witness ==
    /\ last.action_id = "kubectl_pod_select"
    /\ LastCommand = "logs"
    /\ Len(last.executed) = 1
    /\ Len(last.executed[1]) = 5

\* C6: the stored sub_command is one of the sub-commands the catalog permits
\* for the stored command.
C6_SubCommandPermitted ==
    \A c \in DOMAIN selected_actions :
        "sub_command" \in DOMAIN selected_actions[c] =>
            selected_actions[c]["sub_command"]
                \in SubCommandOptions(Get(selected_actions[c], "command", NoneVal))

\* C7: resolving is idempotent: when the same namespace, pod or deployment
\* selection is handled twice in a row, the second handling dispatches the
\* same command as the first and leaves the stored entry as it found it.
C7_ResolveIdempotent ==
    [][(/\ last'.action_id \in ResolvingActions
        /\ last'.action_id = last.action_id
        /\ last'.channel = last.channel
        /\ last'.value = last.value)
       => (/\ last'.executed = last.executed
           /\ selected_actions' = selected_actions)]_vars

C7_Witness ==
    /\ last.action_id = "kubectl_namespace_select"
    /\ {"command", "sub_command", "namespace"} \subseteq DOMAIN LastEntryBefore
    /\ LastEntryBefore["namespace"] = last.value
    /\ Len(last.executed) = 1

\* C29: a namespace selection has exactly one outbound effect, chosen by the
\* stored (command, sub_command): the pod menu exactly for (describe, pods) and
\* (logs, pods), the deployment menu exactly for (rollout restart,
\* deployments), and for every other pair the execution of
\* `kubectl <command> <sub_command> -n <namespace>`.
C29_NamespaceThreeWay ==
    last.action_id = "kubectl_namespace_select" =>
        LET pair == <<LastCommand, LastSubCommand>> IN
        /\ Len(last.posted) = 1
        /\ PostedMenu("kubectl_pod_select") <=> pair \in PodListPairs
        /\ PostedMenu("kubectl_deployment_select") <=> pair \in DeploymentListPairs
        /\ last.posted[1].kind = "menu" <=> last.executed = <<>>
        /\ pair \notin PodListPairs \cup DeploymentListPairs =>
             /\ last.executed =
                  <<<<"kubectl", Fmt(LastCommand), Fmt(LastSubCommand), "-n", last.value>>>>
             /\ last.posted[1].command = last.executed[1]

C29_Witness ==
    /\ last.action_id = "kubectl_namespace_select"
    /\ <<LastCommand, LastSubCommand>> = <<"describe", "deployments">>
    /\ last.executed = <<<<"kubectl", "describe", "deployments", "-n", last.value>>>>

\* the field a selection step is stored under
StepField(action_id) ==
    IF action_id = "kubectl_sub_command_select" THEN "sub_command"
    ELSE IF action_id = "kubectl_namespace_select" THEN "namespace"
    ELSE "resource_name"

\* C30: after a sub_command, namespace, pod or deployment selection the
\* conversation has an entry and the entry holds the selected value under the
\* field of the step, also when there was no entry before.
C30_SelectionStored ==
    last.action_id \in {"kubectl_sub_command_select", "kubectl_namespace_select",
                        "kubectl_pod_select", "kubectl_deployment_select"} =>
        /\ last.channel \in DOMAIN selected_actions
        /\ StepField(last.action_id) \in DOMAIN LastEntry
        /\ LastEntry[StepField(last.action_id)] = last.value

\* the words of a command that are not selected values
Keywords == {"kubectl", "-n", "pod", "deployment"}

\* what the entry of conversation c holds, as it is interpolated
SelectedIn(c) ==
    {Fmt(Get(Entry(c), f, NoneVal)) : f \in {"command", "sub_command", "namespace"}}

SelectionActions ==
    {"kubectl_command_select", "kubectl_sub_command_select",
     "kubectl_namespace_select", "kubectl_pod_select", "kubectl_deployment_select"}

\* C27: a selection event of one conversation, whether it ends in a menu, an
\* executed command or an error message, leaves the entry of every other
\* conversation as it was, and every word of a command it executes is a
\* keyword, the value of the event or a value of that conversation's own
\* entry.
C27_ConversationsIsolated ==
    [][\A c \in Conversations :
         (last'.action_id \in SelectionActions /\ last'.channel = c) =>
            /\ \A b \in Conversations \ {c} :
                 /\ b \in DOMAIN selected_actions <=> b \in DOMAIN selected_actions'
                 /\ b \in DOMAIN selected_actions => selected_actions'[b] = selected_actions[b]
            /\ \A i \in DOMAIN last'.executed : \A j \in DOMAIN last'.executed[i] :
                 last'.executed[i][j] \in Keywords \cup {last'.value} \cup SelectedIn(c)']_vars

C27_Witness ==
    /\ last.action_id = "kubectl_pod_select"
    /\ last.channel = "C1"
    /\ last.executed # <<>>
    /\ "C2" \in DOMAIN selected_actions
    /\ {"command", "sub_command", "namespace"} \subseteq DOMAIN selected_actions["C2"]
    /\ selected_actions["C2"]["command"] # LastCommand
    /\ selected_actions["C2"]["namespace"] # LastNamespace

\* C28: every command handed to a process executor is followed by a relayed
\* outcome (output, error detail or timeout notice), and no subprocess of a
\* returned call is left running, also when the subprocess never exits.
C28_EveryCommandRelayed ==
    /\ (run.pc = "waiting") ~> (run.pc = "returned" /\ run.relayed # NoRelay)
    /\ [](run.pc = "returned" =>
            \A i \in DOMAIN children : children[i].state # "running")

\* the store a handler found, with the namespace of the event written into the
\* entry of its conversation when there is one
BeforeWithNamespace ==
    IF last.channel \in DOMAIN last.before
    THEN [last.before EXCEPT ![last.channel] = Put(@, "namespace", last.value)]
    ELSE last.before

ResourceActions == {"kubectl_pod_select", "kubectl_deployment_select"}

\* C31: executing a command leaves the store as it is (a pod or deployment
\* selection changes nothing, a namespace selection only writes its
\* namespace), no handler removes an entry, and a pod or deployment selection
\* repeated after a finished flow executes the same command again.
C31_ResolvedLeavesStore ==
    /\ [](last.executed # <<>> =>
            IF last.action_id \in ResourceActions
            THEN selected_actions = last.before
            ELSE selected_actions = BeforeWithNamespace)
    /\ [][last'.action_id # "none" =>
            DOMAIN selected_actions \subseteq DOMAIN selected_actions']_vars
    /\ [][(/\ last.action_id \in ResourceActions
           /\ last.executed # <<>>
           /\ last'.action_id = last.action_id
           /\ last'.channel = last.channel
           /\ last'.value = last.value) => last'.executed = last.executed]_vars

C31_Witness ==
    /\ last.action_id = "kubectl_pod_select"
    /\ last.executed # <<>>
    /\ last.channel \in DOMAIN last.before
    /\ selected_actions = last.before
    /\ {"command", "sub_command", "namespace"} \subseteq DOMAIN LastEntry

EarlySteps == {"app_mention", "kubectl_command_select", "kubectl_sub_command_select"}

\* C32: in a flow delivered in order nothing is executed at the mention, the
\* command or the sub-command step; the namespace step executes one command
\* when the pair needs no resource list and none, posting the list, when it
\* does; the resource step, which only follows such a list, executes one
\* command: one command per flow.
C32_FlowExecutesOnce ==
    /\ last.action_id \in EarlySteps => last.executed = <<>>
    /\ last.action_id = "kubectl_namespace_select" =>
         /\ LastSubCommand \in SubCommandOptions(LastCommand)
         /\ IF <<LastCommand, LastSubCommand>> \in PodListPairs \cup DeploymentListPairs
            THEN last.executed = <<>> /\ last.posted[1].kind = "menu"
            ELSE Len(last.executed) = 1
    /\ last.action_id = "kubectl_pod_select" =>
         /\ <<LastCommand, LastSubCommand>> \in PodListPairs
         /\ Len(last.executed) = 1
    /\ last.action_id = "kubectl_deployment_select" =>
         /\ <<LastCommand, LastSubCommand>> \in DeploymentListPairs
         /\ Len(last.executed) = 1

C32_Witness ==
    /\ last.action_id = "kubectl_deployment_select"
    /\ <<LastCommand, LastSubCommand>> = <<"rollout restart", "deployments">>
    /\ Len(last.executed) = 1

\* C33: a pod selection executes a command only when the stored command is
\* describe or logs, and a deployment selection only when it is rollout
\* restart, also when the selection comes from a menu of an earlier flow.
C33_ResourceKindMatches ==
    /\ (last.action_id = "kubectl_pod_select" /\ last.executed # <<>>) =>
          LastCommand \in {"describe", "logs"}
    /\ (last.action_id = "kubectl_deployment_select" /\ last.executed # <<>>) =>
          LastCommand = "rollout restart"

(***************************************************************************)
(* Properties of the negotiator.                                           *)
(***************************************************************************)
IsToolCall(call) == call.kind = "tool"
ToolCalls(calls) == SelectSeq(calls, IsToolCall)

ObjectsOf(text) == {i \in DOMAIN text : text[i].kind = "object"}

\* the text holds no JSON object that asks for a tool
NoStructuredRequest(text) ==
    \A i \in ObjectsOf(text) : Get(text[i].value, "use_tool", JNull) # JTrue

\* the text holds one JSON object {"use_tool": true, "server": <string>,
\* "tool": <string>, ...} and nothing else that looks like JSON
WellFormedRequest(text) ==
    /\ ~HasKind(text, {"truncated"})
    /\ Cardinality(ObjectsOf(text)) = 1
    /\ \A i \in ObjectsOf(text) :
        LET d == text[i].value IN
        /\ {"use_tool", "server", "tool"} \subseteq DOMAIN d
        /\ d["use_tool"] = JTrue
        /\ d["server"][1] = "str"
        /\ d["tool"][1] = "str"

TimeToolOffered ==
    /\ "time" \in mcp_servers
    /\ chat.all_tools # <<>>
    /\ chat.all_tools["time"] # {}

\* the negotiation is over, the model answered the tool prompt with `text`
Answered == chat.pc = "done" /\ chat.response_text # <<>>

\* C8: with the time server registered and offering tools, a message with a
\* time keyword and a model reply that carries no structured tool request, the
\* negotiator invokes time.get_current_time (and no other tool) and never
\* returns the model's text: the reply carries the human_readable field of the
\* tool's result (time_only, then "unavailable", when it is absent), or is the
\* fixed time apology when the forced call raised or returned no JSON object.
C8_TimeFallbackEngaged ==
    (/\ Answered
     /\ TimeToolOffered
     /\ ContainsAny(chat.user_message, TimeKeywords)
     /\ NoStructuredRequest(chat.response_text)) =>
        /\ ToolCalls(chat.calls) = <<ToolCall("time", "get_current_time", JEmptyObject)>>
        /\ chat.reply.kind # "model_text"
        /\ IF chat.tool_raised \/ ObjectsOf(chat.tool_result) = {}
           THEN chat.reply = FixedReply("Sorry, I'm having trouble accessing the time right now.")
           ELSE LET r == chat.tool_result[1].value IN
                /\ chat.reply.kind = "time"
                /\ chat.reply.value =
                     (IF "human_readable" \in DOMAIN r THEN r["human_readable"]
                      ELSE IF "time_only" \in DOMAIN r THEN r["time_only"]
                      ELSE JStr("unavailable"))

C8_Witness ==
    /\ Answered
    /\ TimeToolOffered
    /\ chat.user_message = <<"What", "time", "is", "it">>
    /\ chat.response_text = <<Prose>>
    /\ chat.reply.kind = "time"
    /\ chat.reply.value = JStr("02:30 PM on Friday")

\* C9: when the tool of a well-formed request raises, the negotiator returns
\* the fixed apology, makes no further tool or model call for that message, and
\* leaves the selection store and the registrations unchanged.
C9_ToolRaiseApology ==
    [][/\ (chat.pc = "call_tool" /\ chat'.tool_raised) =>
            /\ chat'.pc = "done"
            /\ chat'.reply = FixedReply(
                 "Sorry, I tried to get that information but encountered an issue. Please try again!")
            /\ chat'.calls = <<ModelCall("tool_prompt"),
                               ToolCall(chat.request.server, chat.request.tool,
                                        chat.request.arguments)>>
            /\ selected_actions' = selected_actions
            /\ mcp_servers' = mcp_servers
       /\ (chat.pc = "done" /\ chat.request.outcome = "request" /\ chat.tool_raised) =>
            /\ chat'.pc = "idle"
            /\ chat'.calls = <<>>
            /\ selected_actions' = selected_actions
            /\ mcp_servers' = mcp_servers]_vars

C9_Witness ==
    /\ chat.pc = "done"
    /\ chat.request.outcome = "request"
    /\ chat.tool_raised
    /\ Len(chat.calls) = 2
    /\ selected_actions # EmptyDict

\* C10: when no well-formed tool request can be decoded from the model's
\* reply, the negotiation goes on as if no tool had been requested: the reply
\* is the fallback tool's answer (or that fallback's own apology) or the
\* model's raw text, never an error or apology caused by the parse failure.
C10_ParseFailureIsNoRequest ==
    (Answered /\ ~WellFormedRequest(chat.response_text)) =>
        \/ chat.reply.kind \in {"model_text", "time", "joke"}
        \/ chat.reply \in {TimeTroubleReply, JokeTroubleReply}

\* the server and the tool the one request object of `text` names
RequestedServer(text) ==
    LET i == CHOOSE i \in ObjectsOf(text) : TRUE IN Strip(text[i].value["server"][2])
RequestedTool(text) ==
    LET i == CHOOSE i \in ObjectsOf(text) : TRUE IN Strip(text[i].value["tool"][2])
RequestedArguments(text) ==
    LET i == CHOOSE i \in ObjectsOf(text) : TRUE IN Get(text[i].value, "arguments", JEmptyObject)

\* C11: when the model's well-formed tool request names a server that is not
\* registered, the reply is the fixed apology and the only call made for the
\* message is the first model call: no tool is invoked (by request or by the
\* keyword fallback) and there is no second model call.
C11_UnregisteredServerApology ==
    (/\ Answered
     /\ WellFormedRequest(chat.response_text)
     /\ RequestedServer(chat.response_text) \notin mcp_servers) =>
        /\ chat.reply = FixedReply(
             "Sorry, I tried to check the time but the service isn't available right now.")
        /\ chat.calls = <<ModelCall("tool_prompt")>>

C11_Witness ==
    /\ Answered
    /\ chat.user_message = <<"What", "time", "is", "it">>
    /\ "time" \in mcp_servers
    /\ chat.response_text = <<Prose, ToolRequestText("weather", "get_forecast"), Prose>>
    /\ chat.reply.kind = "fixed"

\* list_servers() returned no server, or discovery raised, or discovery
\* returned no tool for any server
NothingDiscovered ==
    \/ chat.discovery \in {"no_servers", "failed"}
    \/ /\ chat.discovery = "listed"
       /\ \A srv \in mcp_servers : chat.all_tools[srv] = {}

\* C12: when no server is registered, discovery yields no tool or discovery
\* fails, the negotiation makes exactly one call, the direct model call with
\* the raw user message, and returns what that call gave: the model's text,
\* the "could not generate" notice or the error notice; no tool is invoked.
C12_NoToolsDirectChat ==
    (chat.pc = "done" /\ NothingDiscovered) =>
        /\ chat.calls = <<ModelCallWith("direct", chat.user_message)>>
        /\ ToolCalls(chat.calls) = <<>>
        /\ \/ chat.reply.kind = "model_text" /\ chat.reply.text \in {<<a>> : a \in ModelAnswers}
           \/ chat.reply.kind = "error"
           \/ chat.reply = FixedReply("Sorry, I couldn't generate a response. Please try again.")

C12_Witness ==
    /\ chat.pc = "done"
    /\ chat.discovery = "listed"
    /\ mcp_servers = {"time", "joke"}
    /\ chat.user_message = <<"What", "time", "is", "it">>
    /\ chat.reply.kind = "model_text"

\* C13: when the tool of a well-formed request for a registered server
\* returns, the calls made for the message are, in this order, the first model
\* call, one tool call with the requested server, tool and arguments, and one
\* second model call whose prompt holds the tool's result; when that second
\* call answers, the reply is its answer followed by a footer naming the same
\* server and tool (when it raises, the reply is the fixed apology).
C13_ToolRequestRoundTrip ==
    (/\ Answered
     /\ WellFormedRequest(chat.response_text)
     /\ RequestedServer(chat.response_text) \in mcp_servers
     /\ ~chat.tool_raised) =>
        LET server == RequestedServer(chat.response_text)
            tool == RequestedTool(chat.response_text)
        IN
        /\ Len(chat.calls) = 3
        /\ chat.calls[1] = ModelCall("tool_prompt")
        /\ chat.calls[2] = ToolCall(server, tool, RequestedArguments(chat.response_text))
        /\ chat.calls[3].kind = "model"
        /\ chat.calls[3].prompt = "format_prompt"
        /\ chat.calls[3].given.tool_result = chat.tool_result
        /\ chat.tool_result \in ToolResultTexts
        /\ IF chat.reply.kind = "formatted"
           THEN /\ chat.reply.answer \in ModelAnswers
                /\ chat.reply.footer = <<server, tool>>
           ELSE chat.reply = FixedReply(
                  "Sorry, I tried to get that information but encountered an issue. Please try again!")

C13_Witness ==
    /\ Answered
    /\ chat.response_text = <<FenceJson, ToolRequestText("joke", "get_random_joke"), Fence>>
    /\ chat.reply.kind = "formatted"
    /\ chat.reply.footer = <<"joke", "get_random_joke">>
    /\ Len(chat.calls) = 3

\* C14: whichever of the registry lookup, discovery, the first model call,
\* the tool call and the second model call fail, no exception leaves the
\* negotiator and every negotiation that was started ends with a reply.
C14_AlwaysReplies ==
    /\ [](chat.pc # "raised")
    /\ [](chat.pc = "done" => chat.reply # ChatIdle.reply)
    /\ (chat.pc \notin {"idle", "done"}) ~> (chat.pc = "done")

C14_Witness ==
    /\ chat.pc = "done"
    /\ chat.discovery = "failed"
    /\ chat.reply.kind = "error"

\* C15: the reply of a failed negotiation does not depend on the message of
\* the exception: at every call site, two exceptions that differ only in
\* their message lead to the same reply.
C15_ReplyHidesError ==
    \A e1, e2 \in ExcMessages :
        ExceptClause(chat.pc) # "none" => Raised(chat, e1).reply = Raised(chat, e2).reply

\* the API key is absent or blank
KeyMissing == env_api_key = NoneVal \/ env_api_key \in {"", " "}

\* C16: with the API key absent or blank, every message gets the fixed "not
\* configured" notice, with no model call, no discovery and no tool call.
C16_NotConfigured ==
    (KeyMissing /\ chat.pc # "idle") =>
        /\ chat.pc = "done"
        /\ chat.reply = FixedReply("Gemini API key is not configured.")
        /\ chat.calls = <<>>
        /\ chat.discovery = "none"

C16_Witness ==
    /\ env_api_key = " "
    /\ chat.pc = "done"
    /\ mcp_servers = {"time", "joke"}
    /\ chat.user_message = <<"What", "time", "is", "it">>

\* C34: every tool invocation of a negotiation, requested by the model or
\* forced by the keyword fallback, names a server that is registered.
C34_DispatchOnlyToRegistered ==
    \A i \in DOMAIN chat.calls :
        IsToolCall(chat.calls[i]) => chat.calls[i].server \in mcp_servers

\* json.loads gave an object that carries the keys of a tool request
RequestParsed(text) ==
    LET cleaned == CleanResponse(text)
        json_str == JsonStr(cleaned)
    IN
    /\ LooksLikeJson(cleaned)
    /\ Decodes(json_str)
    /\ {"use_tool", "server", "tool"} \subseteq DOMAIN json_str[1].value

\* a tool was invoked although no request was taken from the model's reply
FallbackRan == ToolCalls(chat.calls) # <<>> /\ chat.request.outcome # "request"

\* C35: one negotiation invokes at most one tool, and the keyword fallback
\* does not run when a structured tool request was parsed from the model's
\* reply, whatever became of the request.
C35_OneToolNoFallbackAfterRequest ==
    /\ Len(ToolCalls(chat.calls)) <= 1
    /\ RequestParsed(chat.response_text) => ~FallbackRan

(***************************************************************************)
(* Properties of the tool servers.                                         *)
(***************************************************************************)
\* the response printed for the i-th line read
ResponseAt(i) == stdout[i].value

HasResult(response) == "result" \in DOMAIN response /\ "error" \notin DOMAIN response
HasError(response) == "error" \in DOMAIN response /\ "result" \notin DOMAIN response

\* the responses a server that has read nothing else may give to `line`
Answers(name, line) == {pass.printed : pass \in LoopPasses(name, line)}

\* C17: the server prints exactly one response line per line read, in input
\* order, each response carrying exactly one of `result` and `error`, and it
\* keeps running until its input is closed.
C17_OneResponsePerLine ==
    /\ Len(stdout) = Len(consumed)
    /\ proc \in {"running", "exited"}
    /\ proc = "exited" => stdin = <<>>
    /\ \A i \in DOMAIN stdout :
        /\ stdout[i].json
        /\ <<stdout[i]>> \in Answers(server_name, consumed[i])
        /\ HasResult(ResponseAt(i)) \/ HasError(ResponseAt(i))

C17_Witness ==
    /\ Len(consumed) = 2
    /\ consumed[1] = json_dumps(VArray)
    /\ consumed[2] = ListRequest
    /\ HasError(ResponseAt(1))
    /\ HasResult(ResponseAt(2))

\* C18: a line that is no JSON gets one error response with id 0 and code
\* -32603 and leaves the server as it was: the process keeps running and every
\* later line gets a response the server gives to that line on its own.
C18_MalformedLineIsolated ==
    \A i \in DOMAIN consumed :
        ~consumed[i].json =>
            /\ Len(stdout) >= i
            /\ HasError(ResponseAt(i))
            /\ ResponseAt(i).id = VInt(0)
            /\ ResponseAt(i).error.code = -32603
            /\ proc = "running" \/ (proc = "exited" /\ stdin = <<>>)
            /\ \A j \in DOMAIN consumed :
                 j > i => /\ Len(stdout) >= j
                          /\ <<stdout[j]>> \in Answers(server_name, consumed[j])

C18_Witness ==
    /\ Len(consumed) = 2
    /\ consumed[1] = NotJson
    /\ consumed[2] = CallRequest("count_jokes", 8, EmptyDict)
    /\ server_name = "joke"
    /\ Len(stdout) = 2
    /\ HasResult(ResponseAt(2))

\* C19: after tools/list, a tools/call with empty arguments and an id of its
\* own for each listed tool: every response carries the id of its request and
\* a result, none an error.
C19_DiscoveredToolsCallable ==
    \A i \in DOMAIN stdout :
        /\ ResponseAt(i).id = consumed[i].value.fields["id"]
        /\ HasResult(ResponseAt(i))
        /\ i > 1 => /\ CalledTool(consumed[i]) \in Range(ResponseAt(1).result.tools)
                    /\ consumed[i].value.fields["id"] # consumed[1].value.fields["id"]

C19_Witness ==
    /\ server_name = "joke"
    /\ Len(stdout) = 1 + Len(ListedTools("joke"))
    /\ consumed[1] = ListRequest
    /\ \A i \in DOMAIN stdout : HasResult(ResponseAt(i))

\* the integer index of a get_joke_by_index request line
IsIndexRequest(line) ==
    /\ line.json
    /\ line.value.type = "object"
    /\ {"method", "params", "id"} \subseteq DOMAIN line.value.fields
    /\ IsStr(line.value.fields["method"], "tools/call")
    /\ line.value.fields["params"].type = "object"
    /\ IsStr(Get(line.value.fields["params"].fields, "name", VNull), "get_joke_by_index")
    /\ "index" \in DOMAIN line.value.fields["params"].fields["arguments"].fields
    /\ line.value.fields["params"].fields["arguments"].fields["index"].type = "int"
IndexOf(line) == line.value.fields["params"].fields["arguments"].fields["index"].int

\* C20: get_joke_by_index with an integer index answers with the joke stored
\* at that index when 0 <= index <= 7, and with error -32602 under the
\* request's id for any other index, negative ones included.
C20_IndexBounds ==
    \A i \in DOMAIN stdout :
        (server_name = "joke" /\ IsIndexRequest(consumed[i])) =>
            LET n == IndexOf(consumed[i]) IN
            /\ ResponseAt(i).id = consumed[i].value.fields["id"]
            /\ IF 0 <= n /\ n <= 7
               THEN /\ HasResult(ResponseAt(i))
                    /\ ResponseAt(i).result.content[1].text =
                         json_dumps([setup |-> JOKES[n + 1].setup,
                                     punchline |-> JOKES[n + 1].punchline,
                                     index |-> n])
               ELSE /\ HasError(ResponseAt(i))
                    /\ ResponseAt(i).error.code = -32602

C20_Witness ==
    /\ server_name = "joke"
    /\ Len(stdout) = 2
    /\ IsIndexRequest(consumed[1]) /\ IndexOf(consumed[1]) = 8
    /\ IsIndexRequest(consumed[2]) /\ IndexOf(consumed[2]) = 0 - 1
    /\ HasError(ResponseAt(1))
    /\ HasError(ResponseAt(2))

\* the line is a JSON object; its method, and the tool its params name
IsRequest(line) == line.json /\ line.value.type = "object"
MethodOf(line) == Get(line.value.fields, "method", VNull)
HasParams(line) == Get(line.value.fields, "params", VObject(EmptyDict)).type = "object"
ToolOf(line) ==
    Get(Get(line.value.fields, "params", VObject(EmptyDict)).fields, "name", VNull)

\* C21: a request whose method is neither tools/list nor tools/call, and a
\* tools/call request naming a tool the server does not list, are answered
\* with error -32601 and no result: no tool body has run.
C21_UnknownMethodOrTool ==
    \A i \in DOMAIN stdout :
        LET line == consumed[i] IN
        IsRequest(line) =>
            /\ (~IsStr(MethodOf(line), "tools/list") /\ ~IsStr(MethodOf(line), "tools/call")) =>
                   /\ HasError(ResponseAt(i))
                   /\ ResponseAt(i).error.code = -32601
            /\ (/\ IsStr(MethodOf(line), "tools/call")
                /\ HasParams(line)
                /\ \A k \in DOMAIN ListedTools(server_name) :
                      ~IsStr(ToolOf(line), ListedTools(server_name)[k])) =>
                   /\ HasError(ResponseAt(i))
                   /\ ResponseAt(i).error.code = -32601

C21_Witness ==
    /\ server_name = "time"
    /\ Len(stdout) = 2
    /\ consumed[1] = CallRequest("get_random_joke", 8, EmptyDict)
    /\ IsRequest(consumed[2])
    /\ IsStr(MethodOf(consumed[2]), "ping")
    /\ HasError(ResponseAt(1))
    /\ HasError(ResponseAt(2))

\* C36: the response to a line that is a JSON object with an `id` carries
\* that id, be it a result or an error, also when `params` or the arguments
\* have an unexpected shape.
C36_ResponseEchoesId ==
    \A i \in DOMAIN stdout :
        (IsRequest(consumed[i]) /\ "id" \in DOMAIN consumed[i].value.fields) =>
            ResponseAt(i).id = consumed[i].value.fields["id"]

(***************************************************************************)
(* Properties of the tool registry.                                        *)
(***************************************************************************)
\* every connect attempt made for `name` succeeded and none of its sessions
\* was disconnected or lost its transport
AllLiveFor(name) ==
    \A i \in LaunchedFor(name) : pool[i].state = "live" /\ ~pool[i].broken

\* C22: a subprocess is launched for a name only when no live session is
\* cached for it: as long as no session of the name has been disconnected and
\* no attempt has failed, one subprocess at most has been launched for it,
\* whatever connect_server, list_tools and call_tool operations were made.
C22_OneLaunchPerName ==
    \A name \in ManagerNames :
        AllLiveFor(name) => Cardinality(LaunchedFor(name)) <= 1

\* C23: list_all_tools never raises and returns a mapping with one key per
\* registered server: the empty list for each server whose connection or
\* discovery failed, the reported tools for every other server.
C23_ListAllToolsIsolates ==
    done.op = "list_all_tools" =>
        /\ done.result = "returned"
        /\ DOMAIN done.all_tools = done.before.servers
        /\ \A name \in done.before.servers :
             done.all_tools[name] = IF name \in done.failed THEN {} ELSE ToolsOf(name)

C23_Witness ==
    /\ done.op = "list_all_tools"
    /\ done.before.servers = {"time", "joke"}
    /\ done.failed = {"time"}
    /\ done.all_tools["joke"] = ToolsOf("joke")

\* C24: when cleanup returns, no session is cached, every session that was
\* live when it was called has been closed exactly once and the registrations
\* are as they were; a cleanup called with nothing cached closes nothing.
C24_CleanupClosesAll ==
    [][(task.op = "cleanup" /\ task'.pc = "idle" /\ done'.result = "returned") =>
           /\ sessions' = <<>>
           /\ servers' = task.before.servers
           /\ \A i \in DOMAIN task.before.pool :
                task.before.pool[i].state = "live" =>
                    /\ pool'[i].state = "closed"
                    /\ pool'[i].closes = 1
           /\ task.before.sessions = <<>> => pool' = task.before.pool]_vars

\* C25: a connect attempt whose transport never answers ends in a failure
\* reported to the caller, and an attempt that does not succeed caches no
\* session.
C25_ConnectEnds ==
    /\ task.silent ~> (task.pc = "idle" /\ done.result = "raised")
    /\ [][(task.pc \in {"stdio", "initialize"} /\ sessions' # sessions) =>
              /\ task.pc = "initialize"
              /\ ~task.silent
              /\ pool'[task.session].state = "live"]_vars

\* C26: a cached session whose transport has failed is not used again: the
\* next list_tools or call_tool on the name connects anew; the failure leaves
\* the registration in place.
C26_ReconnectAfterFailure ==
    [][/\ (task.pc = "lookup" /\ task'.pc = "use") => ~pool[sessions[task.name]].broken
       /\ (task.pc = "use" /\ pool' # pool) => servers' = servers]_vars

\* C37: with list_tools and call_tool running side by side, one subprocess at
\* most is launched for a name as long as no connection attempt for it has
\* failed, and the session cached for a name is replaced only after it was
\* closed.
C37_ConnectSerialized ==
    /\ [](\A name \in ManagerNames :
            AllLiveFor(name) => Cardinality(LaunchedFor(name)) <= 1)
    /\ [][\A name \in DOMAIN sessions \cap DOMAIN sessions' :
            sessions'[name] # sessions[name] => pool[sessions[name]].state = "closed"]_vars

\* C38: the command, the sub-command and the namespace a namespace selection
\* branches on and builds its command from were held together by the entry of
\* the conversation at one moment of the handling, whatever command or
\* sub-command selection of the same conversation was handled in between.
C38_BranchOnOneSnapshot ==
    racing.pc = "done" =>
        <<racing.selected_command, racing.selected_sub_command, racing.value>>
            \in racing.held

(***************************************************************************)
(* Properties of the rollback tool.                                        *)
(***************************************************************************)
IssuedRollback ==
    \E i \in DOMAIN rb.issued : rb.issued[i] = RollbackCommand(rb.app_name, rb.revision_id)

ReadOnlyCommands(app_name) == {StatusCommand(app_name), HistoryCommand(app_name)}

ConfirmationRequired ==
    /\ "confirmation_required" \in DOMAIN rb.result
    /\ rb.result.confirmation_required

\* C39: execute_rollback with confirmed false issues only the status and the
\* history query, never the rollback command, and returns an error or a result
\* with confirmation_required true, the latter only when both queries
\* succeeded and the requested revision is among the revisions returned; the
\* rollback command is issued only when confirmed is true.
C39_RollbackNeedsConfirmation ==
    /\ IssuedRollback => rb.confirmed
    /\ ~rb.confirmed =>
         /\ \A i \in DOMAIN rb.issued : rb.issued[i] \in ReadOnlyCommands(rb.app_name)
         /\ rb.pc = "done" =>
              /\ "error" \in DOMAIN rb.result \/ ConfirmationRequired
              /\ ConfirmationRequired =>
                   /\ rb.status.success /\ rb.status.output.kind = "json"
                   /\ rb.history.success /\ rb.history.output.kind = "json"
                   /\ rb.revision_id \in rb.history.output.ids

C39_Witness ==
    /\ rb.pc = "done"
    /\ ~rb.confirmed
    /\ ConfirmationRequired
    /\ rb.issued = <<StatusCommand(rb.app_name), HistoryCommand(rb.app_name)>>

====
